---- MODULE Spec2Model ----
(***************************************************************************)
(* State-sync reactor of statesync/reactor.go: the channel-based dispatch  *)
(* loop (Start), the legacy callback path (Receive), the session slot      *)
(* guarded by the reactor's RWMutex, and Sync.  The syncer behind the      *)
(* session slot (newSyncer, AddSnapshot, AddChunk, SyncAny) is not part of *)
(* the sources at hand and is modelled from the specification's section    *)
(* 4.5.                                                                    *)
(***************************************************************************)
EXTENDS Integers, Sequences, FiniteSets, TLC

\* ------------------------------------------------------------ constants
SnapshotChannel == 96
ChunkChannel == 97
recentSnapshots == 10

\* ------------------------------------------------------------ bounds
NumPeers == 2
NumSyncCalls == 2
MaxDefers == 2
OutCap == 1
MaxFree == 2
MaxPad == 9
InCap == 1
MaxDelivered == 2
MaxContent == 2

Peers == 1..NumPeers
NoPeer == 0
SyncCallers == 1..NumSyncCalls
NoCaller == 0
InvalidChannel == 0
ChannelIDs == {SnapshotChannel, ChunkChannel, InvalidChannel}

\* ------------------------------------------------------------ data
\* snapshot records {Height, Format, Chunks, Hash, Metadata}; sA < sB = sC on
\* (Height, Format) with Height primary, sB and sC differ in Hash only
sA == [Height |-> 1, Format |-> 2, Chunks |-> 2, Hash |-> "ha", Metadata |-> "ma"]
sB == [Height |-> 2, Format |-> 1, Chunks |-> 1, Hash |-> "hb", Metadata |-> "mb"]
sC == [Height |-> 2, Format |-> 1, Chunks |-> 1, Hash |-> "hc", Metadata |-> "mb"]
sD == [Height |-> 1, Format |-> 1, Chunks |-> 3, Hash |-> "hd", Metadata |-> "md"]
SnapDomain == {sA, sB, sC, sD}
\* the snapshots peers advertise in the concurrency specification
AdvertDomain == {sA, sB}

\* []byte values: the nil slice, a present zero-length slice, a non-empty one
Payloads == {"nil", "empty", "data"}

SnapshotsRequest == [type |-> "SnapshotsRequest"]
UnknownMessage == [type |-> "Unknown"]

SnapshotsResponse(s) ==
  [type |-> "SnapshotsResponse", Height |-> s.Height, Format |-> s.Format,
   Chunks |-> s.Chunks, Hash |-> s.Hash, Metadata |-> s.Metadata]

ChunkRequest(h, f, i) ==
  [type |-> "ChunkRequest", Height |-> h, Format |-> f, Index |-> i]

ChunkResponse(h, f, i, c, m) ==
  [type |-> "ChunkResponse", Height |-> h, Format |-> f, Index |-> i,
   Chunk |-> c, Missing |-> m]

\* p2p.Envelope
Envelope(from, to, bc, msg) ==
  [From |-> from, To |-> to, Broadcast |-> bc, Message |-> msg]

\* the ChunkResponse messages peers send: chunk 0 of sB and of sA, an index
\* sB does not have, and chunk 0 of sB reported missing
ChunkResponses ==
  {ChunkResponse(2, 1, 0, "data", FALSE), ChunkResponse(1, 2, 0, "data", FALSE),
   ChunkResponse(2, 1, 1, "data", FALSE), ChunkResponse(2, 1, 0, "nil", TRUE)}

ChunkRequests == {ChunkRequest(s.Height, s.Format, i) : s \in {sA, sB}, i \in 0..1}

SnapshotsResponses == {SnapshotsResponse(s) : s \in AdvertDomain}

Responses == SnapshotsResponses \cup ChunkResponses

\* ------------------------------------------------------------ state
VARIABLES
  ctor,         \* which constructor built the reactor
  conn,         \* Reactor.conn is non-nil
  chans,        \* Reactor.snapshotCh/chunkCh/ctx are non-nil
  base,         \* the embedded BaseReactor was initialised
  switch,       \* BaseReactor.Switch is non-nil
  running,      \* BaseService.IsRunning()
  ctxDone,      \* Reactor.ctx is cancelled
  panicked,     \* a goroutine panicked: the process is gone
  syncer,       \* Reactor.syncer: NoSyncer or the session
  mtx,          \* Reactor.mtx
  startPc,      \* position of the Start goroutine
  startDefers,  \* deferred RUnlock calls stacked in Start's frame
  startLocal,   \* locals of the current iteration of Start
  syncPc,       \* position of each Sync call
  syncRet,      \* what each Sync call returned
  bcast,        \* Switch.Broadcast calls issued by each Sync call
  recvPc,       \* position of each peer's Receive call
  recvLocal,    \* locals of each peer's Receive call
  snapOut,      \* snapshotCh.Out
  chunkOut,     \* chunkCh.Out
  snapIn,       \* snapshotCh.In
  chunkIn,      \* chunkCh.In
  appSnapshots, \* what the application lists on ListSnapshots
  peerStatus,   \* peer.Status of each peer in the peer store
  delivered,    \* the messages the snapshot channel handed to each peer
  discarded,    \* how many envelopes the snapshot channel discarded
  lastCall      \* the last call of a function that keeps no state, with its result

vars ==
  <<ctor, conn, chans, base, switch, running, ctxDone, panicked, syncer, mtx,
    startPc, startDefers, startLocal, syncPc, syncRet, bcast, recvPc, recvLocal,
    snapOut, chunkOut, snapIn, chunkIn, appSnapshots, peerStatus, delivered,
    discarded, lastCall>>

wiringVars == <<ctor, conn, chans, base, switch>>
startVars == <<startPc, startDefers, startLocal>>
syncVars == <<syncPc, syncRet, bcast>>
recvVars == <<recvPc, recvLocal>>
outVars == <<snapOut, chunkOut>>
inVars == <<snapIn, chunkIn>>
netVars == <<peerStatus, delivered, discarded>>

\* ------------------------------------------------------------ recentSnapshots
\* the less function handed to sort.Slice: descending (Height, Format)
snapshotLess(a, b) ==
  \/ a.Height > b.Height
  \/ a.Height = b.Height /\ a.Format > b.Format

\* sort.Slice is not stable: elements that compare equal may end in either
\* order.  tie = "after" keeps equal elements in input order, "before" reverses
\* them.
RECURSIVE InsertSorted(_, _, _)
InsertSorted(x, s, tie) ==
  IF s = <<>> THEN <<x>>
  ELSE IF \/ snapshotLess(x, Head(s))
          \/ tie = "before" /\ ~snapshotLess(Head(s), x)
       THEN <<x>> \o s
       ELSE <<Head(s)>> \o InsertSorted(x, Tail(s), tie)

RECURSIVE sortSlice(_, _)
sortSlice(s, tie) ==
  IF s = <<>> THEN <<>>
  ELSE InsertSorted(s[Len(s)], sortSlice(SubSeq(s, 1, Len(s) - 1), tie), tie)

SortTies == {"after", "before"}

Min(a, b) == IF a < b THEN a ELSE b

\* the snapshot value built from an abci.Snapshot
snapshotOf(s) ==
  [Height |-> s.Height, Format |-> s.Format, Chunks |-> s.Chunks,
   Hash |-> s.Hash, Metadata |-> s.Metadata]

\* recentSnapshots(n) on the application's answer: n sizes the result slice
\* only, the loop stops at the package constant
recentSnapshotsOffByOne(n, listed, tie) ==
  LET sorted == sortSlice(listed, tie)
      k == Min(recentSnapshots + 1, Len(sorted))
  IN [i \in 1..k |-> snapshotOf(sorted[i])]

recentSnapshotsFn(n, listed, tie) ==
  LET sorted == sortSlice(listed, tie)
      k == Min(recentSnapshots, Len(sorted))
  IN [i \in 1..k |-> snapshotOf(sorted[i])]

\* no such call was made yet
NoCall == [fn |-> "none", arg |-> <<>>, listed |-> <<>>, result |-> <<>>, err |-> FALSE]

\* r.recentSnapshots(n) is called while the application lists appSnapshots,
\* or fails to
RecentSnapshotsCall(counts) ==
  /\ conn
  /\ \E n \in counts, failed \in BOOLEAN, tie \in SortTies :
       lastCall' = [fn |-> "recentSnapshots", arg |-> <<n>>, listed |-> appSnapshots,
                result |-> IF failed THEN <<>>
                           ELSE recentSnapshotsFn(n, appSnapshots, tie),
                err |-> failed]
  /\ UNCHANGED <<wiringVars, netVars, inVars, running, ctxDone, panicked,
                 syncer, mtx, startVars, syncVars, recvVars, outVars,
                 appSnapshots>>

\* ------------------------------------------------------------ syncer (section 4.5)
NoSnapshot == [Height |-> 0, Format |-> 0, Chunks |-> 0, Hash |-> "", Metadata |-> ""]

\* the empty session slot (r.syncer == nil)
NoSyncer ==
  [owner |-> NoCaller, phase |-> "none", snapshots |-> {},
   selected |-> NoSnapshot, retrieved |-> {}, requested |-> {},
   chunks |-> {}, restores |-> 0, failed |-> {}, tries |-> {}]

snapshotKey(s) == <<s.Height, s.Format, s.Hash>>

\* a new session: nothing discovered, nothing selected, no chunk stored
\* (chunks holds the payload kept for each retrieved index) and the
\* application not yet asked to restore
newSyncer(c) ==
  [owner |-> c, phase |-> "discovering", snapshots |-> {},
   selected |-> NoSnapshot, retrieved |-> {}, requested |-> {},
   chunks |-> {}, restores |-> 0, failed |-> {}, tries |-> {}]

\* AddSnapshot(peer, snapshot): one record per (Height, Format, Hash), every
\* advertising peer recorded
AddSnapshotLastPeerOnly(sess, peer, snap) ==
  [sess EXCEPT !.snapshots =
     {e \in @ : snapshotKey(e.snap) # snapshotKey(snap)}
       \cup {[snap |-> snap, peers |-> {peer}]}]

AddSnapshot(sess, peer, snap) ==
  IF \E e \in sess.snapshots : snapshotKey(e.snap) = snapshotKey(snap)
  THEN [sess EXCEPT !.snapshots =
          {IF snapshotKey(e.snap) = snapshotKey(snap)
           THEN [e EXCEPT !.peers = @ \cup {peer}] ELSE e : e \in sess.snapshots}]
  ELSE [sess EXCEPT !.snapshots = @ \cup {[snap |-> snap, peers |-> {peer}]}]

\* whether AddChunk rejects the chunk: no snapshot selected, coordinates that
\* are not the selected snapshot's, or an index outside [0, ChunkCount)
ChunkRejectedUnlessInRange(sess, chunk) ==
  \/ sess.phase # "fetching"
  \/ chunk.Index < 0
  \/ chunk.Index >= sess.selected.Chunks

ChunkRejected(sess, chunk) ==
  \/ sess.phase # "fetching"
  \/ chunk.Height # sess.selected.Height
  \/ chunk.Format # sess.selected.Format
  \/ chunk.Index < 0
  \/ chunk.Index >= sess.selected.Chunks

\* AddChunk(chunk): a rejected chunk and an already retrieved index change
\* nothing; otherwise the payload is stored, the index is retrieved and its
\* request, failed or not, is settled together with its retry count
AddChunkOverwrites(sess, chunk) ==
  IF ChunkRejected(sess, chunk)
  THEN sess
  ELSE [sess EXCEPT !.retrieved = @ \cup {chunk.Index},
                    !.chunks = {s \in @ : s[1] # chunk.Index}
                                 \cup {<<chunk.Index, chunk.Chunk>>},
                    !.requested = {r \in @ : r[1] # chunk.Index},
                    !.failed = {f \in @ : f[1] # chunk.Index},
                    !.tries = {n \in @ : n[1] # chunk.Index}]

AddChunk(sess, chunk) ==
  IF ChunkRejected(sess, chunk) \/ chunk.Index \in sess.retrieved
  THEN sess
  ELSE [sess EXCEPT !.retrieved = @ \cup {chunk.Index},
                    !.chunks = @ \cup {<<chunk.Index, chunk.Chunk>>},
                    !.requested = {r \in @ : r[1] # chunk.Index},
                    !.failed = {f \in @ : f[1] # chunk.Index},
                    !.tries = {n \in @ : n[1] # chunk.Index}]

\* the best discovered snapshot: none has a larger (Height, Format)
BestSnapshotsByFormat(sess) ==
  {e \in sess.snapshots : \A o \in sess.snapshots : o.snap.Format <= e.snap.Format}

BestSnapshots(sess) ==
  {e \in sess.snapshots :
     \A o \in sess.snapshots : ~snapshotLess(o.snap, e.snap)}

\* the session is told of a peer that came up: the peer has advertised
\* nothing yet, the bookkeeping stays as it is
syncerAddPeer(sess, peer) == sess

\* the session is told of a peer that went down: it is no advertiser any
\* more and its requests are no longer outstanding but failed, to be retried
syncerRemovePeer(sess, peer) ==
  [sess EXCEPT !.snapshots = {[e EXCEPT !.peers = @ \ {peer}] : e \in @},
               !.requested = {r \in @ : r[2] # peer},
               !.failed = @ \cup {r \in sess.requested : r[2] = peer}]

\* ------------------------------------------------------------ construction
NoLocal ==
  [kind |-> "none", ch |-> InvalidChannel, from |-> NoPeer,
   msg |-> UnknownMessage, outcome |-> "",
   calls |-> <<>>, list |-> <<>>, idx |-> 0, sent |-> <<>>, listed |-> <<>>,
   stopped |-> <<>>, locked |-> FALSE]

NoRet == [returned |-> FALSE, state |-> 0, commit |-> 0, err |-> "nil"]

\* NewReactor sets ctx, the two channels, peerUpdates and tempDir;
\* NewReactorDeprecated sets conn, connQuery and the BaseReactor; "literal" is
\* a Reactor value with every field of the struct populated. A wired reactor
\* has been added to a Switch (SetSwitch) and started (OnStart). Log calls
\* are not modelled: the Logger is taken to be set.
Constructors == {"NewReactor", "NewReactorDeprecated", "literal"}

\* r.tempDir holds the directory the constructor was given: NewReactor sets
\* the field (line 64), NewReactorDeprecated takes the parameter and leaves
\* the field empty (lines 198-205)
tempDir == ctor # "NewReactorDeprecated"

Constructed(ctors, lists, wired) ==
  /\ ctor \in ctors
  /\ conn = (ctor # "NewReactor")
  /\ chans = (ctor # "NewReactorDeprecated")
  /\ base = (ctor # "NewReactor")
  /\ switch = wired
  /\ running = (wired /\ base)
  /\ ctxDone = FALSE
  /\ panicked = FALSE
  /\ syncer = NoSyncer
  /\ mtx = [readers |-> 0, pending |-> NoCaller, rwait |-> {}]
  /\ startPc = "init"
  /\ startDefers = 0
  /\ startLocal = NoLocal
  /\ syncPc = [c \in SyncCallers |-> "idle"]
  /\ syncRet = [c \in SyncCallers |-> NoRet]
  /\ bcast = [c \in SyncCallers |-> <<>>]
  /\ recvPc = [p \in Peers |-> "idle"]
  /\ recvLocal = [p \in Peers |-> NoLocal]
  /\ snapOut = <<>>
  /\ chunkOut = <<>>
  /\ snapIn = <<>>
  /\ chunkIn = <<>>
  /\ appSnapshots \in lists
  /\ peerStatus = [p \in Peers |-> "new"]
  /\ delivered = [p \in Peers |-> <<>>]
  /\ discarded = 0
  /\ lastCall = NoCall

Init == Constructed(Constructors, {<<>>}, FALSE)

\* ------------------------------------------------------------ environment
\* BaseReactor.SetSwitch, called by the Switch the reactor is added to
SetSwitch ==
  /\ ~panicked
  /\ ~switch
  /\ switch' = TRUE
  /\ UNCHANGED <<ctor, conn, chans, base, inVars, netVars, running, ctxDone,
                 panicked, syncer, mtx, startVars, syncVars, recvVars, outVars,
                 appSnapshots, lastCall>>

\* BaseService.Start -> OnStart
OnStart ==
  /\ ~panicked
  /\ base
  /\ ~running
  /\ running' = TRUE
  /\ UNCHANGED <<wiringVars, netVars, inVars, ctxDone, panicked, syncer, mtx,
                 startVars, syncVars, recvVars, outVars, appSnapshots, lastCall>>

\* the owner of ctx cancels it
Cancel ==
  /\ ~panicked
  /\ chans
  /\ ~ctxDone
  /\ ctxDone' = TRUE
  /\ UNCHANGED <<wiringVars, netVars, inVars, running, panicked, syncer, mtx,
                 startVars, syncVars, recvVars, outVars, appSnapshots, lastCall>>

\* the router connects to a peer it has not contacted yet or is disconnected
\* from; a removed or banned peer is not dialed
PeerDialWhatever(p) ==
  /\ peerStatus[p] # "up"
  /\ peerStatus' = [peerStatus EXCEPT ![p] = "up"]
  /\ UNCHANGED <<wiringVars, inVars, delivered, discarded, running, ctxDone,
                 panicked, syncer, mtx, startVars, syncVars, recvVars, outVars,
                 appSnapshots, lastCall>>

PeerDial(p) ==
  /\ peerStatus[p] \in {"new", "down"}
  /\ peerStatus' = [peerStatus EXCEPT ![p] = "up"]
  /\ UNCHANGED <<wiringVars, inVars, delivered, discarded, running, ctxDone,
                 panicked, syncer, mtx, startVars, syncVars, recvVars, outVars,
                 appSnapshots, lastCall>>

\* the connection to a peer is lost
PeerDisconnect(p) ==
  /\ peerStatus[p] = "up"
  /\ peerStatus' = [peerStatus EXCEPT ![p] = "down"]
  /\ UNCHANGED <<wiringVars, inVars, delivered, discarded, running, ctxDone,
                 panicked, syncer, mtx, startVars, syncVars, recvVars, outVars,
                 appSnapshots, lastCall>>

\* a disconnected peer is removed, or banned for misbehaviour
PeerRetire(p, status) ==
  /\ peerStatus[p] = "down"
  /\ status \in {"removed", "banned"}
  /\ peerStatus' = [peerStatus EXCEPT ![p] = status]
  /\ UNCHANGED <<wiringVars, inVars, delivered, discarded, running, ctxDone,
                 panicked, syncer, mtx, startVars, syncVars, recvVars, outVars,
                 appSnapshots, lastCall>>

\* the envelopes a reactor may put on a channel's Out queue: addressed to a
\* peer, broadcast, both, or neither
OutEnvelopes(peers) ==
  {Envelope(NoPeer, to, bc, SnapshotsRequest) :
     to \in peers \cup {NoPeer}, bc \in BOOLEAN}

\* Channel.Out <- envelope, by any user of the snapshot channel
ChannelSend(envs) ==
  /\ ~panicked
  /\ chans
  /\ Len(snapOut) < OutCap
  /\ \A p \in Peers : discarded + Len(delivered[p]) < MaxDelivered
  /\ \E e \in envs : snapOut' = Append(snapOut, e)
  /\ UNCHANGED <<wiringVars, inVars, netVars, running, ctxDone, panicked,
                 syncer, mtx, startVars, syncVars, recvVars, chunkOut,
                 appSnapshots, lastCall>>

\* the peers the channel hands an outbound envelope to: every connected peer
\* for a broadcast, else the connected peer it is addressed to, else none
RecipientsOfUnaddressedAll(e) ==
  IF e.Broadcast \/ e.To = NoPeer
  THEN {p \in Peers : peerStatus[p] = "up"}
  ELSE {p \in {e.To} : peerStatus[p] = "up"}

RecipientsOf(e) ==
  IF e.Broadcast THEN {p \in Peers : peerStatus[p] = "up"}
  ELSE IF e.To # NoPeer THEN {p \in {e.To} : peerStatus[p] = "up"}
  ELSE {}

\* the channel takes the next envelope off the snapshot channel's Out queue
\* and hands its message to the recipients; an envelope that is neither
\* addressed nor a broadcast is discarded
ChannelRoute ==
  /\ ~panicked
  /\ snapOut # <<>>
  /\ snapOut' = Tail(snapOut)
  /\ delivered' = [p \in Peers |->
                     IF p \in RecipientsOf(Head(snapOut))
                     THEN Append(delivered[p], Head(snapOut).Message)
                     ELSE delivered[p]]
  /\ discarded' = IF Head(snapOut).To = NoPeer /\ ~Head(snapOut).Broadcast
                  THEN discarded + 1
                  ELSE discarded
  /\ UNCHANGED <<wiringVars, inVars, peerStatus, running, ctxDone, panicked,
                 syncer, mtx, startVars, syncVars, recvVars, chunkOut,
                 appSnapshots, lastCall>>

\* the router takes the next envelope off the snapshot channel's Out queue
RouterDrainSnapshot ==
  /\ ~panicked
  /\ snapOut # <<>>
  /\ snapOut' = Tail(snapOut)
  /\ UNCHANGED <<wiringVars, netVars, inVars, running, ctxDone, panicked,
                 syncer, mtx, startVars, syncVars, recvVars, chunkOut,
                 appSnapshots, lastCall>>

\* the router takes the next envelope off the chunk channel's Out queue
RouterDrainChunk ==
  /\ ~panicked
  /\ chunkOut # <<>>
  /\ chunkOut' = Tail(chunkOut)
  /\ UNCHANGED <<wiringVars, netVars, inVars, running, ctxDone, panicked,
                 syncer, mtx, startVars, syncVars, recvVars, snapOut,
                 appSnapshots, lastCall>>

\* the router puts an envelope received from a peer on the snapshot
\* channel's In queue
RouterDeliverSnapshot(peers, msgs) ==
  /\ ~panicked
  /\ chans
  /\ Len(snapIn) < InCap
  /\ \E from \in peers, msg \in msgs :
       snapIn' = Append(snapIn, Envelope(from, NoPeer, FALSE, msg))
  /\ UNCHANGED <<wiringVars, netVars, running, ctxDone, panicked, syncer, mtx,
                 startVars, syncVars, recvVars, outVars, chunkIn, appSnapshots, lastCall>>

\* the router puts an envelope received from a peer on the chunk channel's
\* In queue
RouterDeliverChunk(peers, msgs) ==
  /\ ~panicked
  /\ chans
  /\ Len(chunkIn) < InCap
  /\ \E from \in peers, msg \in msgs :
       chunkIn' = Append(chunkIn, Envelope(from, NoPeer, FALSE, msg))
  /\ UNCHANGED <<wiringVars, netVars, running, ctxDone, panicked, syncer, mtx,
                 startVars, syncVars, recvVars, outVars, snapIn, appSnapshots, lastCall>>

\* ------------------------------------------------------------ tmsync.RWMutex
StartProc == 0

\* RLock returns at once unless a writer has announced itself
CanRLock == mtx.pending = NoCaller

RLocked(m) == [m EXCEPT !.readers = @ + 1]

RLockBlocked(m, proc) == [m EXCEPT !.rwait = @ \cup {proc}]

RUnlocked(m, n) == [m EXCEPT !.readers = @ - n]

\* Lock announces the writer; it owns the mutex once no reader is left
CanLock == mtx.pending = NoCaller /\ mtx.readers = 0

LockPending(m, c) == [m EXCEPT !.pending = c]

\* Unlock lets in every reader that queued up behind the writer
Unlocked(m) ==
  [readers |-> Cardinality(m.rwait), pending |-> NoCaller, rwait |-> {}]

\* ------------------------------------------------------------ Sync
SyncBusyError == "a state sync is already in progress"

\* positions of a Sync call between creating its session and resetting the slot
SyncActive == {"broadcast", "syncany", "lock2", "wait2"}

\* a caller invokes Sync(stateProvider, discoveryTime): r.mtx.Lock() is next.
\* Calls are numbered in the order they are made.
SyncCall(c) ==
  /\ ~panicked
  /\ syncPc[c] = "idle"
  /\ \A d \in SyncCallers : d < c => syncPc[d] # "idle"
  /\ syncPc' = [syncPc EXCEPT ![c] = "lock1"]
  /\ UNCHANGED <<wiringVars, netVars, inVars, running, ctxDone, panicked,
                 syncer, mtx, startVars, syncRet, bcast, recvVars, outVars,
                 appSnapshots, lastCall>>

\* r.mtx.Lock() with read locks outstanding: the writer is announced and waits
SyncLockWait(c) ==
  /\ ~panicked
  /\ syncPc[c] \in {"lock1", "lock2"}
  /\ mtx.pending = NoCaller
  /\ mtx.readers > 0
  /\ mtx' = LockPending(mtx, c)
  /\ syncPc' = [syncPc EXCEPT ![c] = IF @ = "lock1" THEN "wait1" ELSE "wait2"]
  /\ UNCHANGED <<wiringVars, netVars, inVars, running, ctxDone, panicked,
                 syncer, startVars, syncRet, bcast, recvVars, outVars,
                 appSnapshots, lastCall>>

\* the write lock is granted to c at the given pair of positions
LockGranted(c, fresh, waiting) ==
  \/ syncPc[c] = fresh /\ CanLock
  \/ syncPc[c] = waiting /\ mtx.pending = c /\ mtx.readers = 0

\* the session slot after the check of lines 407-411
SyncInstallAlways(c) == newSyncer(c)

SyncInstall(c) == IF syncer.owner # NoCaller THEN syncer ELSE newSyncer(c)

\* lines 406-412: under the write lock, fail if a session exists, else create it
SyncCheck(c) ==
  /\ ~panicked
  /\ LockGranted(c, "lock1", "wait1")
  /\ mtx' = Unlocked(mtx)
  /\ syncer' = SyncInstall(c)
  /\ IF syncer.owner # NoCaller
     THEN /\ syncRet' = [syncRet EXCEPT ![c] =
                [returned |-> TRUE, state |-> 0, commit |-> 0, err |-> SyncBusyError]]
          /\ syncPc' = [syncPc EXCEPT ![c] = "done"]
     ELSE /\ syncRet' = syncRet
          /\ syncPc' = [syncPc EXCEPT ![c] = "broadcast"]
  /\ UNCHANGED <<wiringVars, netVars, inVars, running, ctxDone, panicked,
                 startVars, bcast, recvVars, outVars, appSnapshots, lastCall>>

\* the Broadcast calls of lines 414-416
SyncBroadcastsNone(c) == <<>>

SyncBroadcasts(c) == <<[ch |-> SnapshotChannel, msg |-> SnapshotsRequest]>>

\* line 416: r.Switch.Broadcast; a nil Switch is dereferenced
SyncBroadcast(c) ==
  /\ ~panicked
  /\ syncPc[c] = "broadcast"
  /\ IF switch
     THEN /\ bcast' = [bcast EXCEPT ![c] = @ \o SyncBroadcasts(c)]
          /\ syncPc' = [syncPc EXCEPT ![c] = "syncany"]
          /\ UNCHANGED panicked
     ELSE /\ panicked' = TRUE
          /\ UNCHANGED <<bcast, syncPc>>
  /\ UNCHANGED <<wiringVars, netVars, inVars, running, ctxDone, syncer, mtx,
                 startVars, syncRet, recvVars, outVars, appSnapshots, lastCall>>

\* the slot after lines 419-421
SyncResetSkipped == syncer

SyncResetSlot == NoSyncer

\* line 422: return state, commit, err
SyncReturnNilError(ret) == [ret EXCEPT !.returned = TRUE, !.err = "nil"]

SyncReturn(ret) == [ret EXCEPT !.returned = TRUE]

\* lines 419-422: under the write lock, empty the slot; return SyncAny's result
SyncReset(c) ==
  /\ ~panicked
  /\ LockGranted(c, "lock2", "wait2")
  /\ mtx' = Unlocked(mtx)
  /\ syncer' = SyncResetSlot
  /\ syncRet' = [syncRet EXCEPT ![c] = SyncReturn(@)]
  /\ syncPc' = [syncPc EXCEPT ![c] = "done"]
  /\ UNCHANGED <<wiringVars, netVars, inVars, running, ctxDone, panicked,
                 startVars, bcast, recvVars, outVars, appSnapshots, lastCall>>

\* ------------------------------------------------------------ SyncAny (section 4.5)
NoSnapshotError == "no suitable snapshot found"
RestoreError == "restore failed"

SyncAnyReturns(c, st, cm, e) ==
  /\ syncRet' = [syncRet EXCEPT ![c] =
        [returned |-> FALSE, state |-> st, commit |-> cm, err |-> e]]
  /\ syncPc' = [syncPc EXCEPT ![c] = "lock2"]

\* the discovery window expires: fail without a snapshot, else select the best
DiscoveryExpires(c) ==
  /\ ~panicked
  /\ syncPc[c] = "syncany"
  /\ syncer.phase = "discovering"
  /\ IF syncer.snapshots = {}
     THEN /\ syncer' = [syncer EXCEPT !.phase = "done"]
          /\ SyncAnyReturns(c, 0, 0, NoSnapshotError)
     ELSE /\ \E e \in BestSnapshots(syncer) :
               syncer' = [syncer EXCEPT !.phase = "fetching", !.selected = e.snap]
          /\ UNCHANGED <<syncRet, syncPc>>
  /\ UNCHANGED <<wiringVars, netVars, inVars, running, ctxDone, panicked, mtx,
                 startVars, bcast, recvVars, outVars, appSnapshots, lastCall>>

AdvertisersOf(sess) ==
  UNION {e.peers : e \in {x \in sess.snapshots :
                            snapshotKey(x.snap) = snapshotKey(sess.selected)}}

\* the retries a chunk index may have before the sync fails
chunkRetries == 2
RetryError == "chunk retries exhausted"

\* the retries the session has made so far for chunk index i
RetriesOf(sess, i) ==
  IF \E n \in sess.tries : n[1] = i
  THEN (CHOOSE n \in sess.tries : n[1] = i)[2]
  ELSE 0

\* a chunk that is neither retrieved nor requested is requested from a peer
\* that advertised the selected snapshot; if its last request failed this is
\* a retry, which goes to another peer and is counted
FetchRequestSamePeer(c) ==
  /\ ~panicked
  /\ syncPc[c] = "syncany"
  /\ syncer.phase = "fetching"
  /\ \E i \in 0..(syncer.selected.Chunks - 1), p \in AdvertisersOf(syncer) :
       /\ i \notin syncer.retrieved
       /\ \A r \in syncer.requested : r[1] # i
       /\ IF \E f \in syncer.failed : f[1] = i
          THEN /\ RetriesOf(syncer, i) < chunkRetries
               /\ syncer' = [syncer EXCEPT
                    !.requested = @ \cup {<<i, p>>},
                    !.failed = {f \in @ : f[1] # i},
                    !.tries = {n \in @ : n[1] # i}
                                \cup {<<i, RetriesOf(syncer, i) + 1>>}]
          ELSE syncer' = [syncer EXCEPT !.requested = @ \cup {<<i, p>>}]
  /\ UNCHANGED <<wiringVars, netVars, inVars, running, ctxDone, panicked, mtx,
                 startVars, syncVars, recvVars, outVars, appSnapshots, lastCall>>

FetchRequestUnbounded(c) ==
  /\ ~panicked
  /\ syncPc[c] = "syncany"
  /\ syncer.phase = "fetching"
  /\ \E i \in 0..(syncer.selected.Chunks - 1), p \in AdvertisersOf(syncer) :
       /\ i \notin syncer.retrieved
       /\ \A r \in syncer.requested : r[1] # i
       /\ IF \E f \in syncer.failed : f[1] = i
          THEN /\ \A f \in syncer.failed : f[1] = i => f[2] # p
               /\ syncer' = [syncer EXCEPT
                    !.requested = @ \cup {<<i, p>>},
                    !.failed = {f \in @ : f[1] # i},
                    !.tries = {n \in @ : n[1] # i}
                                \cup {<<i, RetriesOf(syncer, i) + 1>>}]
          ELSE syncer' = [syncer EXCEPT !.requested = @ \cup {<<i, p>>}]
  /\ UNCHANGED <<wiringVars, netVars, inVars, running, ctxDone, panicked, mtx,
                 startVars, syncVars, recvVars, outVars, appSnapshots, lastCall>>

FetchRequest(c) ==
  /\ ~panicked
  /\ syncPc[c] = "syncany"
  /\ syncer.phase = "fetching"
  /\ \E i \in 0..(syncer.selected.Chunks - 1), p \in AdvertisersOf(syncer) :
       /\ i \notin syncer.retrieved
       /\ \A r \in syncer.requested : r[1] # i
       /\ IF \E f \in syncer.failed : f[1] = i
          THEN /\ \A f \in syncer.failed : f[1] = i => f[2] # p
               /\ RetriesOf(syncer, i) < chunkRetries
               /\ syncer' = [syncer EXCEPT
                    !.requested = @ \cup {<<i, p>>},
                    !.failed = {f \in @ : f[1] # i},
                    !.tries = {n \in @ : n[1] # i}
                                \cup {<<i, RetriesOf(syncer, i) + 1>>}]
          ELSE syncer' = [syncer EXCEPT !.requested = @ \cup {<<i, p>>}]
  /\ UNCHANGED <<wiringVars, netVars, inVars, running, ctxDone, panicked, mtx,
                 startVars, syncVars, recvVars, outVars, appSnapshots, lastCall>>

\* an outstanding request times out
RequestTimeout(c) ==
  /\ ~panicked
  /\ syncPc[c] = "syncany"
  /\ syncer.phase = "fetching"
  /\ \E r \in syncer.requested :
       syncer' = [syncer EXCEPT !.requested = @ \ {r}, !.failed = @ \cup {r}]
  /\ UNCHANGED <<wiringVars, netVars, inVars, running, ctxDone, panicked, mtx,
                 startVars, syncVars, recvVars, outVars, appSnapshots, lastCall>>

\* a failed request of a chunk whose retries are used up fails the sync
FetchFails(c) ==
  /\ ~panicked
  /\ syncPc[c] = "syncany"
  /\ syncer.phase = "fetching"
  /\ \E f \in syncer.failed : RetriesOf(syncer, f[1]) >= chunkRetries
  /\ syncer' = [syncer EXCEPT !.phase = "done"]
  /\ SyncAnyReturns(c, 0, 0, RetryError)
  /\ UNCHANGED <<wiringVars, netVars, inVars, running, ctxDone, panicked, mtx,
                 startVars, bcast, recvVars, outVars, appSnapshots, lastCall>>

\* every chunk is retrieved: the application restores, or fails to
RestoreOnFirstChunk(c) ==
  /\ ~panicked
  /\ syncPc[c] = "syncany"
  /\ syncer.phase = "fetching"
  /\ syncer.retrieved # {}
  /\ syncer' = [syncer EXCEPT !.phase = "done", !.restores = @ + 1]
  /\ \E ok \in BOOLEAN :
       IF ok
       THEN SyncAnyReturns(c, syncer.selected.Height, syncer.selected.Height, "nil")
       ELSE SyncAnyReturns(c, 0, 0, RestoreError)
  /\ UNCHANGED <<wiringVars, netVars, inVars, running, ctxDone, panicked, mtx,
                 startVars, bcast, recvVars, outVars, appSnapshots, lastCall>>

Restore(c) ==
  /\ ~panicked
  /\ syncPc[c] = "syncany"
  /\ syncer.phase = "fetching"
  /\ syncer.retrieved = 0..(syncer.selected.Chunks - 1)
  /\ syncer' = [syncer EXCEPT !.phase = "done", !.restores = @ + 1]
  /\ \E ok \in BOOLEAN :
       IF ok
       THEN SyncAnyReturns(c, syncer.selected.Height, syncer.selected.Height, "nil")
       ELSE SyncAnyReturns(c, 0, 0, RestoreError)
  /\ UNCHANGED <<wiringVars, netVars, inVars, running, ctxDone, panicked, mtx,
                 startVars, bcast, recvVars, outVars, appSnapshots, lastCall>>

\* ------------------------------------------------------------ Start
StartLocalOf(kind, from, msg, outcome) ==
  [NoLocal EXCEPT !.kind = kind, !.from = from, !.msg = msg, !.outcome = outcome]

\* Start() is called: the select reads r.snapshotCh.In, r.chunkCh.In and
\* r.ctx.Done(), which a reactor without channels does not have
StartBegin ==
  /\ ~panicked
  /\ startPc = "init"
  /\ IF chans
     THEN startPc' = "select" /\ UNCHANGED panicked
     ELSE panicked' = TRUE /\ UNCHANGED startPc
  /\ UNCHANGED <<wiringVars, netVars, inVars, running, ctxDone, syncer, mtx,
                 startDefers, startLocal, syncVars, recvVars, outVars,
                 appSnapshots, lastCall>>

\* lines 78-83: a SnapshotsRequest is selected; the application is asked
StartSnapshotsRequest ==
  /\ ~panicked
  /\ startPc = "select"
  /\ \E from \in Peers :
       IF ~conn
       THEN /\ panicked' = TRUE
            /\ UNCHANGED <<startPc, startLocal>>
       ELSE /\ UNCHANGED panicked
            /\ \E failed \in BOOLEAN, tie \in SortTies :
                 LET snapshots == recentSnapshotsFn(recentSnapshots, appSnapshots, tie) IN
                 IF failed
                 THEN /\ startLocal' =
                           StartLocalOf("SnapshotsRequest", from, SnapshotsRequest, "listError")
                      /\ startPc' = "loop"
                 ELSE /\ startLocal' =
                           [StartLocalOf("SnapshotsRequest", from, SnapshotsRequest, "listed")
                              EXCEPT !.list = snapshots, !.idx = 1, !.listed = appSnapshots]
                      /\ startPc' = IF snapshots = <<>> THEN "loop" ELSE "send"
  /\ UNCHANGED <<wiringVars, netVars, inVars, running, ctxDone, syncer, mtx,
                 startDefers, syncVars, recvVars, outVars, appSnapshots, lastCall>>

\* the envelope of lines 87-96 sent to every peer
StartAdvertisementBroadcast(to, snapshot) ==
  Envelope(NoPeer, NoPeer, TRUE, SnapshotsResponse(snapshot))

\* the envelope of lines 87-96 for one snapshot
StartAdvertisement(to, snapshot) ==
  Envelope(NoPeer, to, FALSE, SnapshotsResponse(snapshot))

\* lines 85-97 with the loop left after the first send
StartSendYields ==
  /\ ~panicked
  /\ startPc = "send"
  /\ Len(snapOut) < OutCap
  /\ LET e == StartAdvertisement(startLocal.from, startLocal.list[startLocal.idx]) IN
       /\ snapOut' = Append(snapOut, e)
       /\ startLocal' = [startLocal EXCEPT !.sent = Append(@, e), !.idx = @ + 1]
  /\ startPc' = IF startLocal.idx = Len(startLocal.list) THEN "loop" ELSE "select"
  /\ UNCHANGED <<wiringVars, netVars, inVars, running, ctxDone, panicked,
                 syncer, mtx, startDefers, syncVars, recvVars, chunkOut,
                 appSnapshots, lastCall>>

\* lines 85-97: one iteration of the range loop; the send waits for room
StartSend ==
  /\ ~panicked
  /\ startPc = "send"
  /\ Len(snapOut) < OutCap
  /\ LET e == StartAdvertisement(startLocal.from, startLocal.list[startLocal.idx]) IN
       /\ snapOut' = Append(snapOut, e)
       /\ startLocal' = [startLocal EXCEPT !.sent = Append(@, e), !.idx = @ + 1]
  /\ startPc' = IF startLocal.idx = Len(startLocal.list) THEN "loop" ELSE "send"
  /\ UNCHANGED <<wiringVars, netVars, inVars, running, ctxDone, panicked,
                 syncer, mtx, startDefers, syncVars, recvVars, chunkOut,
                 appSnapshots, lastCall>>

\* the snapshot of lines 109-115
StartSnapshotOfSwapped(msg) ==
  [Height |-> msg.Format, Format |-> msg.Height, Chunks |-> msg.Chunks,
   Hash |-> msg.Hash, Metadata |-> msg.Metadata]

StartSnapshotOf(msg) ==
  [Height |-> msg.Height, Format |-> msg.Format, Chunks |-> msg.Chunks,
   Hash |-> msg.Hash, Metadata |-> msg.Metadata]

\* the chunk of lines 161-167
StartChunkOfNoSender(msg, from) ==
  [Height |-> msg.Height, Format |-> msg.Format, Index |-> msg.Index,
   Chunk |-> msg.Chunk, Sender |-> NoPeer]

StartChunkOf(msg, from) ==
  [Height |-> msg.Height, Format |-> msg.Format, Index |-> msg.Index,
   Chunk |-> msg.Chunk, Sender |-> from]

\* lines 103-119 and 155-171, entered with the read lock held and its
\* RUnlock deferred to the return of Start
StartResponseBody(from, msg) ==
  /\ startDefers' = startDefers + 1
  /\ startPc' = "loop"
  /\ IF syncer.owner = NoCaller
     THEN /\ startLocal' = StartLocalOf(msg.type, from, msg, "noSession")
          /\ UNCHANGED syncer
     ELSE IF msg.type = "SnapshotsResponse"
     THEN \E failed \in BOOLEAN :
            /\ startLocal' =
                 [StartLocalOf(msg.type, from, msg, IF failed THEN "addError" ELSE "added")
                    EXCEPT !.calls = <<[op |-> "AddSnapshot", peer |-> from,
                                        arg |-> StartSnapshotOf(msg)]>>]
            /\ syncer' = IF failed THEN syncer
                         ELSE AddSnapshot(syncer, from, StartSnapshotOf(msg))
     ELSE LET chunk == StartChunkOf(msg, from) IN
            /\ startLocal' =
                 [StartLocalOf(msg.type, from, msg,
                               IF ChunkRejected(syncer, chunk) THEN "addError" ELSE "added")
                    EXCEPT !.calls = <<[op |-> "AddChunk", peer |-> NoPeer, arg |-> chunk]>>]
            /\ syncer' = AddChunk(syncer, chunk)

\* lines 99-101 and 151-153: a SnapshotsResponse or ChunkResponse is selected
\* and r.mtx.RLock() is called
StartResponse(peers, msgs) ==
  /\ ~panicked
  /\ startPc = "select"
  /\ startDefers < MaxDefers
  /\ \E from \in peers, msg \in msgs :
       IF CanRLock
       THEN /\ mtx' = RLocked(mtx)
            /\ StartResponseBody(from, msg)
       ELSE /\ mtx' = RLockBlocked(mtx, StartProc)
            /\ startPc' = "rwait"
            /\ startLocal' = StartLocalOf(msg.type, from, msg, "blocked")
            /\ UNCHANGED <<startDefers, syncer>>
  /\ UNCHANGED <<wiringVars, netVars, inVars, running, ctxDone, panicked,
                 syncVars, recvVars, outVars, appSnapshots, lastCall>>

\* the writer ahead of Start's RLock has unlocked
StartResume ==
  /\ ~panicked
  /\ startPc = "rwait"
  /\ StartProc \notin mtx.rwait
  /\ StartResponseBody(startLocal.from, startLocal.msg)
  /\ UNCHANGED <<wiringVars, netVars, inVars, running, ctxDone, panicked, mtx,
                 syncVars, recvVars, outVars, appSnapshots, lastCall>>

\* lines 121-123, 173-175 and 178-180: an unknown message or a peer update is
\* logged
StartLogOnly(peers) ==
  /\ ~panicked
  /\ startPc = "select"
  /\ \E from \in peers, kind \in {"Unknown", "peerUpdate"} :
       startLocal' = StartLocalOf(kind, from, UnknownMessage, "logged")
  /\ startPc' = "loop"
  /\ UNCHANGED <<wiringVars, netVars, inVars, running, ctxDone, panicked,
                 syncer, mtx, startDefers, syncVars, recvVars, outVars,
                 appSnapshots, lastCall>>

\* what a handler may end with other than success
HandlerFailures == {"listError", "loadError", "addError", "logged", "noSession"}

\* the for loop with a return on every failure
StartLoopReturnsOnFailure ==
  /\ ~panicked
  /\ startPc = "loop"
  /\ startPc' = IF startLocal.outcome \in HandlerFailures THEN "returned" ELSE "select"
  /\ startLocal' = NoLocal
  /\ UNCHANGED <<wiringVars, netVars, inVars, running, ctxDone, panicked,
                 syncer, mtx, startDefers, syncVars, recvVars, outVars,
                 appSnapshots, lastCall>>

\* the for loop comes round: the iteration's locals are gone
StartLoop ==
  /\ ~panicked
  /\ startPc = "loop"
  /\ startPc' = "select"
  /\ startLocal' = NoLocal
  /\ UNCHANGED <<wiringVars, netVars, inVars, running, ctxDone, panicked,
                 syncer, mtx, startDefers, syncVars, recvVars, outVars,
                 appSnapshots, lastCall>>

\* lines 183-184: ctx.Done() is selected; return nil runs the deferred RUnlocks
StartReturnDropsSession ==
  /\ ~panicked
  /\ startPc = "select"
  /\ ctxDone
  /\ startPc' = "returned"
  /\ mtx' = RUnlocked(mtx, startDefers)
  /\ startDefers' = 0
  /\ syncer' = NoSyncer
  /\ UNCHANGED <<wiringVars, netVars, inVars, running, ctxDone, panicked,
                 startLocal, syncVars, recvVars, outVars, appSnapshots, lastCall>>

StartReturn ==
  /\ ~panicked
  /\ startPc = "select"
  /\ ctxDone
  /\ startPc' = "returned"
  /\ mtx' = RUnlocked(mtx, startDefers)
  /\ startDefers' = 0
  /\ UNCHANGED <<wiringVars, netVars, inVars, running, ctxDone, panicked,
                 syncer, startLocal, syncVars, recvVars, outVars, appSnapshots, lastCall>>

\* what LoadSnapshotChunkSync may answer: an error, or a response whose Chunk
\* is nil, empty or filled
LoadOutcomes == {"error"} \cup Payloads

\* the ChunkResponse of lines 142-148
StartChunkResponseLenTest(msg, loaded) ==
  ChunkResponse(msg.Height, msg.Format, msg.Index, loaded, loaded \in {"nil", "empty"})

StartChunkResponse(msg, loaded) ==
  ChunkResponse(msg.Height, msg.Format, msg.Index, loaded, loaded = "nil")

\* lines 127-137 with a load error answered as a missing chunk
StartChunkRequestErrorAsMissing(msgs) ==
  /\ ~panicked
  /\ startPc = "select"
  /\ \E from \in Peers, msg \in msgs :
       IF ~conn
       THEN /\ panicked' = TRUE
            /\ UNCHANGED <<startPc, startLocal>>
       ELSE /\ UNCHANGED panicked
            /\ \E loaded \in LoadOutcomes :
                 /\ startLocal' =
                      [StartLocalOf(msg.type, from, msg,
                                    IF loaded = "error" THEN "loadError" ELSE "loaded")
                         EXCEPT !.list = <<StartChunkResponse(msg,
                                             IF loaded = "error" THEN "nil" ELSE loaded)>>,
                                !.listed = <<loaded>>]
                 /\ startPc' = "sendchunk"
  /\ UNCHANGED <<wiringVars, netVars, inVars, running, ctxDone, syncer, mtx,
                 startDefers, syncVars, recvVars, outVars, appSnapshots, lastCall>>

\* lines 127-137: a ChunkRequest is selected; the application loads the chunk
StartChunkRequest(msgs) ==
  /\ ~panicked
  /\ startPc = "select"
  /\ \E from \in Peers, msg \in msgs :
       IF ~conn
       THEN /\ panicked' = TRUE
            /\ UNCHANGED <<startPc, startLocal>>
       ELSE /\ UNCHANGED panicked
            /\ \E loaded \in LoadOutcomes :
                 IF loaded = "error"
                 THEN /\ startLocal' = StartLocalOf(msg.type, from, msg, "loadError")
                      /\ startPc' = "loop"
                 ELSE /\ startLocal' =
                           [StartLocalOf(msg.type, from, msg, "loaded")
                              EXCEPT !.list = <<StartChunkResponse(msg, loaded)>>,
                                     !.listed = <<loaded>>]
                      /\ startPc' = "sendchunk"
  /\ UNCHANGED <<wiringVars, netVars, inVars, running, ctxDone, syncer, mtx,
                 startDefers, syncVars, recvVars, outVars, appSnapshots, lastCall>>

\* lines 140-149: the send on r.chunkCh.Out waits for room
StartSendChunk ==
  /\ ~panicked
  /\ startPc = "sendchunk"
  /\ Len(chunkOut) < OutCap
  /\ LET e == Envelope(NoPeer, startLocal.from, FALSE, startLocal.list[1]) IN
       /\ chunkOut' = Append(chunkOut, e)
       /\ startLocal' = [startLocal EXCEPT !.sent = Append(@, e)]
  /\ startPc' = "loop"
  /\ UNCHANGED <<wiringVars, netVars, inVars, running, ctxDone, panicked,
                 syncer, mtx, startDefers, syncVars, recvVars, snapOut,
                 appSnapshots, lastCall>>

\* the channel a message type travels on
ChannelOf(msg) ==
  IF msg.type \in {"SnapshotsRequest", "SnapshotsResponse"}
  THEN SnapshotChannel ELSE ChunkChannel

\* the default case handling a response whatever channel it came in on
StartWrongChannelHandled(peers, msgs) ==
  /\ ~panicked
  /\ startPc = "select"
  /\ \E from \in peers, msg \in msgs, ch \in {SnapshotChannel, ChunkChannel} :
       /\ ch # ChannelOf(msg)
       /\ startLocal' =
            [StartLocalOf(msg.type, from, msg, "logged")
               EXCEPT !.ch = ch,
                      !.calls = IF msg.type = "SnapshotsResponse" /\ syncer.owner # NoCaller
                                THEN <<[op |-> "AddSnapshot", peer |-> from,
                                        arg |-> StartSnapshotOf(msg)]>>
                                ELSE <<>>]
       /\ syncer' = IF msg.type = "SnapshotsResponse" /\ syncer.owner # NoCaller
                    THEN AddSnapshot(syncer, from, StartSnapshotOf(msg)) ELSE syncer
  /\ startPc' = "loop"
  /\ UNCHANGED <<wiringVars, netVars, inVars, running, ctxDone, panicked,
                 mtx, startDefers, syncVars, recvVars, outVars,
                 appSnapshots, lastCall>>

\* lines 121-123 and 173-175: the envelope selected from one channel's In
\* queue carries a message of the other channel; the default case logs it
StartWrongChannel(peers, msgs) ==
  /\ ~panicked
  /\ startPc = "select"
  /\ \E from \in peers, msg \in msgs, ch \in {SnapshotChannel, ChunkChannel} :
       /\ ch # ChannelOf(msg)
       /\ startLocal' = [StartLocalOf(msg.type, from, msg, "logged") EXCEPT !.ch = ch]
  /\ startPc' = "loop"
  /\ UNCHANGED <<wiringVars, netVars, inVars, running, ctxDone, panicked,
                 syncer, mtx, startDefers, syncVars, recvVars, outVars,
                 appSnapshots, lastCall>>

\* line 75 with the queues in view: the cases of the select that can proceed
ReadyCases ==
  {ch \in {SnapshotChannel} : snapIn # <<>>} \cup {ch \in {ChunkChannel} : chunkIn # <<>>}

\* a select that takes the first ready case in the order of the source text
SelectInOrder(ready) ==
  IF SnapshotChannel \in ready THEN {SnapshotChannel} ELSE ready

\* the case the select takes: any one of those that can proceed
SelectChoices(ready) == ready

\* lines 75-76 and 125: the select receives the envelope at the head of the
\* In queue of the case it takes
StartSelect ==
  /\ ~panicked
  /\ startPc = "select"
  /\ startLocal = NoLocal
  /\ \E ch \in SelectChoices(ReadyCases) :
       LET envelope == IF ch = SnapshotChannel THEN Head(snapIn) ELSE Head(chunkIn) IN
         /\ startLocal' = [NoLocal EXCEPT !.kind = "select", !.ch = ch,
                                          !.from = envelope.From,
                                          !.msg = envelope.Message,
                                          !.outcome = "received"]
         /\ snapIn' = IF ch = SnapshotChannel THEN Tail(snapIn) ELSE snapIn
         /\ chunkIn' = IF ch = ChunkChannel THEN Tail(chunkIn) ELSE chunkIn
  /\ UNCHANGED <<wiringVars, netVars, running, ctxDone, panicked, syncer, mtx,
                 startPc, startDefers, syncVars, recvVars, outVars,
                 appSnapshots, lastCall>>

\* lines 77 and 126: the type switch on the message of the envelope received;
\* a message that is not one of the channel's two goes to the default case
StartSwitch ==
  /\ startLocal.kind = "select"
  /\ LET ch == startLocal.ch
         from == startLocal.from
         msg == startLocal.msg
     IN IF ch = SnapshotChannel /\ msg.type = "SnapshotsRequest"
        THEN StartSnapshotsRequest /\ startLocal'.from = from
        ELSE IF ch = ChunkChannel /\ msg.type = "ChunkRequest"
        THEN StartChunkRequest({msg}) /\ startLocal'.from = from
        ELSE IF msg.type \in {"SnapshotsResponse", "ChunkResponse"} /\ ch = ChannelOf(msg)
        THEN StartResponse({from}, {msg})
        ELSE StartLogOnly({from}) /\ startLocal'.kind = "Unknown"

\* lines 183-184 taken by a select that has received no envelope
StartDone ==
  /\ startLocal = NoLocal
  /\ StartReturn

\* ------------------------------------------------------------ Receive
ReceiveLocalOf(ch, src, msg, outcome) ==
  [NoLocal EXCEPT !.kind = msg.type, !.ch = ch, !.from = src, !.msg = msg,
                  !.outcome = outcome]

\* a peer's connection delivers a message: Receive(chID, src, msgBytes) starts
ReceiveCalled(src) ==
  /\ ~panicked
  /\ recvPc[src] = "idle"

\* Receive without the IsRunning test: the bytes are decoded all the same
ReceiveNotRunningDecodes(src) ==
  /\ ReceiveCalled(src)
  /\ ~running
  /\ \E ch \in ChannelIDs :
       recvLocal' = [recvLocal EXCEPT ![src] =
                       [ReceiveLocalOf(ch, src, UnknownMessage, "notRunning")
                          EXCEPT !.stopped = IF switch THEN <<src>> ELSE <<>>]]
  /\ recvPc' = [recvPc EXCEPT ![src] = "ret"]
  /\ UNCHANGED <<wiringVars, netVars, inVars, running, ctxDone, panicked,
                 syncer, mtx, startVars, syncVars, outVars, appSnapshots, lastCall>>

\* lines 250-252: the reactor is not running
ReceiveNotRunning(src) ==
  /\ ReceiveCalled(src)
  /\ ~running
  /\ \E ch \in ChannelIDs :
       recvLocal' = [recvLocal EXCEPT ![src] =
                       ReceiveLocalOf(ch, src, UnknownMessage, "notRunning")]
  /\ recvPc' = [recvPc EXCEPT ![src] = "ret"]
  /\ UNCHANGED <<wiringVars, netVars, inVars, running, ctxDone, panicked,
                 syncer, mtx, startVars, syncVars, outVars, appSnapshots, lastCall>>

\* lines 254-265 without the return of line 258: the nil message is validated
\* as well
ReceiveBadBytesFallsThrough(src) ==
  /\ ReceiveCalled(src)
  /\ running
  /\ IF ~switch
     THEN /\ panicked' = TRUE
          /\ UNCHANGED recvVars
     ELSE /\ UNCHANGED panicked
          /\ \E ch \in ChannelIDs, why \in {"undecodable", "invalid"} :
               recvLocal' = [recvLocal EXCEPT ![src] =
                               [ReceiveLocalOf(ch, src, UnknownMessage, why)
                                  EXCEPT !.stopped = IF why = "undecodable"
                                                     THEN <<src, src>> ELSE <<src>>]]
          /\ recvPc' = [recvPc EXCEPT ![src] = "ret"]
  /\ UNCHANGED <<wiringVars, netVars, inVars, running, ctxDone, syncer, mtx,
                 startVars, syncVars, outVars, appSnapshots, lastCall>>

\* lines 254-265: msgBytes do not decode, or decode to an invalid message
ReceiveBadBytes(src) ==
  /\ ReceiveCalled(src)
  /\ running
  /\ IF ~switch
     THEN /\ panicked' = TRUE
          /\ UNCHANGED recvVars
     ELSE /\ UNCHANGED panicked
          /\ \E ch \in ChannelIDs, why \in {"undecodable", "invalid"} :
               recvLocal' = [recvLocal EXCEPT ![src] =
                               [ReceiveLocalOf(ch, src, UnknownMessage, why)
                                  EXCEPT !.stopped = <<src>>]]
          /\ recvPc' = [recvPc EXCEPT ![src] = "ret"]
  /\ UNCHANGED <<wiringVars, netVars, inVars, running, ctxDone, syncer, mtx,
                 startVars, syncVars, outVars, appSnapshots, lastCall>>

\* src.Send(chID, mustEncodeMsg(msg))
LegacySend(src, ch, msg) == [to |-> src, ch |-> ch, msg |-> msg]

\* lines 270-286: SnapshotsRequest on the snapshot channel
ReceiveSnapshotsRequest(src) ==
  /\ ReceiveCalled(src)
  /\ running
  /\ IF ~conn
     THEN /\ panicked' = TRUE
          /\ UNCHANGED recvVars
     ELSE /\ UNCHANGED panicked
          /\ \E failed \in BOOLEAN, tie \in SortTies :
               LET snapshots == recentSnapshotsFn(recentSnapshots, appSnapshots, tie) IN
               recvLocal' = [recvLocal EXCEPT ![src] =
                 IF failed
                 THEN ReceiveLocalOf(SnapshotChannel, src, SnapshotsRequest, "listError")
                 ELSE [ReceiveLocalOf(SnapshotChannel, src, SnapshotsRequest, "listed")
                         EXCEPT !.listed = appSnapshots,
                                !.list = snapshots,
                                !.sent = [i \in 1..Len(snapshots) |->
                                            LegacySend(src, SnapshotChannel,
                                                       SnapshotsResponse(snapshots[i]))]]]
          /\ recvPc' = [recvPc EXCEPT ![src] = "ret"]
  /\ UNCHANGED <<wiringVars, netVars, inVars, running, ctxDone, syncer, mtx,
                 startVars, syncVars, outVars, appSnapshots, lastCall>>

\* the ChunkResponse of lines 330-336
ReceiveChunkResponse(msg, loaded) ==
  ChunkResponse(msg.Height, msg.Format, msg.Index, loaded, loaded = "nil")

\* lines 315-336: ChunkRequest on the chunk channel
ReceiveChunkRequest(src, msgs) ==
  /\ ReceiveCalled(src)
  /\ running
  /\ IF ~conn
     THEN /\ panicked' = TRUE
          /\ UNCHANGED recvVars
     ELSE /\ UNCHANGED panicked
          /\ \E msg \in msgs, loaded \in LoadOutcomes :
               recvLocal' = [recvLocal EXCEPT ![src] =
                 IF loaded = "error"
                 THEN ReceiveLocalOf(ChunkChannel, src, msg, "loadError")
                 ELSE [ReceiveLocalOf(ChunkChannel, src, msg, "loaded")
                         EXCEPT !.listed = <<loaded>>,
                                !.sent = <<LegacySend(src, ChunkChannel,
                                             ReceiveChunkResponse(msg, loaded))>>]]
          /\ recvPc' = [recvPc EXCEPT ![src] = "ret"]
  /\ UNCHANGED <<wiringVars, netVars, inVars, running, ctxDone, syncer, mtx,
                 startVars, syncVars, outVars, appSnapshots, lastCall>>

\* the snapshot of lines 296-302
ReceiveSnapshotOf(msg) ==
  [Height |-> msg.Height, Format |-> msg.Format, Chunks |-> msg.Chunks,
   Hash |-> msg.Hash, Metadata |-> msg.Metadata]

\* the chunk of lines 347-353
ReceiveChunkOfNoSender(msg, src) ==
  [Height |-> msg.Height, Format |-> msg.Format, Index |-> msg.Index,
   Chunk |-> msg.Chunk, Sender |-> NoPeer]

ReceiveChunkOf(msg, src) ==
  [Height |-> msg.Height, Format |-> msg.Format, Index |-> msg.Index,
   Chunk |-> msg.Chunk, Sender |-> src]

\* lines 291-307 and 341-358, entered with the read lock held and its RUnlock
\* deferred to the return of Receive
ReceiveResponseBody(src, ch, msg) ==
  /\ recvPc' = [recvPc EXCEPT ![src] = "ret"]
  /\ IF syncer.owner = NoCaller
     THEN /\ recvLocal' = [recvLocal EXCEPT ![src] =
               [ReceiveLocalOf(ch, src, msg, "noSession") EXCEPT !.locked = TRUE]]
          /\ UNCHANGED syncer
     ELSE IF msg.type = "SnapshotsResponse"
     THEN \E failed \in BOOLEAN :
            /\ recvLocal' = [recvLocal EXCEPT ![src] =
                 [ReceiveLocalOf(ch, src, msg, IF failed THEN "addError" ELSE "added")
                    EXCEPT !.locked = TRUE,
                           !.calls = <<[op |-> "AddSnapshot", peer |-> src,
                                        arg |-> ReceiveSnapshotOf(msg)]>>]]
            /\ syncer' = IF failed THEN syncer
                         ELSE AddSnapshot(syncer, src, ReceiveSnapshotOf(msg))
     ELSE LET chunk == ReceiveChunkOf(msg, src) IN
            /\ recvLocal' = [recvLocal EXCEPT ![src] =
                 [ReceiveLocalOf(ch, src, msg,
                                 IF ChunkRejected(syncer, chunk) THEN "addError" ELSE "added")
                    EXCEPT !.locked = TRUE,
                           !.calls = <<[op |-> "AddChunk", peer |-> NoPeer,
                                        arg |-> chunk]>>]]
            /\ syncer' = AddChunk(syncer, chunk)

\* lines 288-290 and 338-340: a SnapshotsResponse on the snapshot channel or a
\* ChunkResponse on the chunk channel; r.mtx.RLock() is called
ReceiveResponse(src, msgs) ==
  /\ ReceiveCalled(src)
  /\ running
  /\ \E msg \in msgs :
       IF CanRLock
       THEN /\ mtx' = RLocked(mtx)
            /\ ReceiveResponseBody(src, ChannelOf(msg), msg)
       ELSE /\ mtx' = RLockBlocked(mtx, src)
            /\ recvPc' = [recvPc EXCEPT ![src] = "rwait"]
            /\ recvLocal' = [recvLocal EXCEPT ![src] =
                               ReceiveLocalOf(ChannelOf(msg), src, msg, "blocked")]
            /\ UNCHANGED syncer
  /\ UNCHANGED <<wiringVars, netVars, inVars, running, ctxDone, panicked,
                 startVars, syncVars, outVars, appSnapshots, lastCall>>

\* the writer ahead of Receive's RLock has unlocked
ReceiveResume(src) ==
  /\ ~panicked
  /\ recvPc[src] = "rwait"
  /\ src \notin mtx.rwait
  /\ ReceiveResponseBody(src, recvLocal[src].ch, recvLocal[src].msg)
  /\ UNCHANGED <<wiringVars, netVars, inVars, running, ctxDone, panicked, mtx,
                 startVars, syncVars, outVars, appSnapshots, lastCall>>

\* lines 309-311, 360-366: a message that is not the channel's, or a channel
\* that is not the reactor's, is logged
ReceiveLogOnly(src, msgs) ==
  /\ ReceiveCalled(src)
  /\ running
  /\ \E ch \in ChannelIDs, msg \in msgs :
       /\ ch # ChannelOf(msg) \/ msg.type = "Unknown"
       /\ recvLocal' = [recvLocal EXCEPT ![src] = ReceiveLocalOf(ch, src, msg, "logged")]
  /\ recvPc' = [recvPc EXCEPT ![src] = "ret"]
  /\ UNCHANGED <<wiringVars, netVars, inVars, running, ctxDone, panicked,
                 syncer, mtx, startVars, syncVars, outVars, appSnapshots, lastCall>>

\* Receive returns; the deferred RUnlock runs if RLock was taken
ReceiveReturn(src) ==
  /\ ~panicked
  /\ recvPc[src] = "ret"
  /\ mtx' = IF recvLocal[src].locked THEN RUnlocked(mtx, 1) ELSE mtx
  /\ recvPc' = [recvPc EXCEPT ![src] = "idle"]
  /\ recvLocal' = [recvLocal EXCEPT ![src] = NoLocal]
  /\ UNCHANGED <<wiringVars, netVars, inVars, running, ctxDone, panicked,
                 syncer, startVars, syncVars, outVars, appSnapshots, lastCall>>

\* the callbacks without the deferred RUnlock
PeerCallbackKeepsLock(peer, op) ==
  /\ ReceiveCalled(peer)
  /\ CanRLock
  /\ mtx' = RLocked(mtx)
  /\ recvPc' = [recvPc EXCEPT ![peer] = "ret"]
  /\ IF syncer.owner = NoCaller
     THEN /\ recvLocal' = [recvLocal EXCEPT ![peer] =
               [NoLocal EXCEPT !.kind = op, !.from = peer, !.outcome = "noSession",
                               !.locked = FALSE]]
          /\ UNCHANGED syncer
     ELSE /\ recvLocal' = [recvLocal EXCEPT ![peer] =
               [NoLocal EXCEPT !.kind = op, !.from = peer, !.outcome = "forwarded",
                               !.locked = FALSE,
                               !.calls = <<[op |-> op, peer |-> peer,
                                            arg |-> [ID |-> peer]]>>]]
          /\ syncer' = IF op = "AddPeer" THEN syncerAddPeer(syncer, peer)
                       ELSE syncerRemovePeer(syncer, peer)
  /\ UNCHANGED <<wiringVars, netVars, inVars, running, ctxDone, panicked,
                 startVars, syncVars, outVars, appSnapshots, lastCall>>

\* lines 231-237 and 240-246: AddPeer and RemovePeer, called by the Switch.
\* RLock waits while a writer has announced itself; the lock is held to the
\* return and the session, if there is one, is told of the peer
PeerCallback(peer, op) ==
  /\ ReceiveCalled(peer)
  /\ CanRLock
  /\ mtx' = RLocked(mtx)
  /\ recvPc' = [recvPc EXCEPT ![peer] = "ret"]
  /\ IF syncer.owner = NoCaller
     THEN /\ recvLocal' = [recvLocal EXCEPT ![peer] =
               [NoLocal EXCEPT !.kind = op, !.from = peer, !.outcome = "noSession",
                               !.locked = TRUE]]
          /\ UNCHANGED syncer
     ELSE /\ recvLocal' = [recvLocal EXCEPT ![peer] =
               [NoLocal EXCEPT !.kind = op, !.from = peer, !.outcome = "forwarded",
                               !.locked = TRUE,
                               !.calls = <<[op |-> op, peer |-> peer,
                                            arg |-> [ID |-> peer]]>>]]
          /\ syncer' = IF op = "AddPeer" THEN syncerAddPeer(syncer, peer)
                       ELSE syncerRemovePeer(syncer, peer)
  /\ UNCHANGED <<wiringVars, netVars, inVars, running, ctxDone, panicked,
                 startVars, syncVars, outVars, appSnapshots, lastCall>>

AddPeer(peer) == PeerCallback(peer, "AddPeer")

RemovePeer(peer) == PeerCallback(peer, "RemovePeer")

\* ------------------------------------------------------------ specifications
\* the responses of the concurrency specification and the peer they come from
FewResponses == {SnapshotsResponse(sB), ChunkResponse(2, 1, 0, "data", FALSE)}

OnePeer == {1}

\* Spec: Sync calls, the Start loop and Receive calls contending for the
\* session slot and its mutex
Next ==
  \/ SetSwitch
  \/ OnStart
  \/ Cancel
  \/ \E c \in SyncCallers : SyncCall(c)
  \/ \E c \in SyncCallers : SyncLockWait(c)
  \/ \E c \in SyncCallers : SyncCheck(c)
  \/ \E c \in SyncCallers : SyncBroadcast(c)
  \/ \E c \in SyncCallers : SyncReset(c)
  \/ \E c \in SyncCallers : DiscoveryExpires(c)
  \/ \E c \in SyncCallers : FetchRequest(c)
  \/ \E c \in SyncCallers : Restore(c)
  \/ StartBegin
  \/ StartResponse(OnePeer, FewResponses)
  \/ StartResume
  \/ StartLogOnly(OnePeer)
  \/ StartLoop
  \/ StartReturn
  \/ \E p \in OnePeer : ReceiveResponse(p, FewResponses)
  \/ \E p \in OnePeer : ReceiveResume(p)
  \/ \E p \in OnePeer : ReceiveReturn(p)

Spec == Init /\ [][Next]_vars

\* the scheduler runs every goroutine that can take a step; when messages
\* arrive and when the context is cancelled is up to the environment
Fairness ==
  /\ \A c \in SyncCallers :
       /\ WF_vars(SyncLockWait(c))
       /\ WF_vars(SyncCheck(c))
       /\ WF_vars(SyncBroadcast(c))
       /\ WF_vars(SyncReset(c))
       /\ WF_vars(DiscoveryExpires(c))
       /\ WF_vars(Restore(c))
  /\ WF_vars(StartBegin)
  /\ WF_vars(StartResume)
  /\ WF_vars(StartLoop)
  /\ WF_vars(StartReturn)
  /\ \A p \in OnePeer : WF_vars(ReceiveResume(p)) /\ WF_vars(ReceiveReturn(p))

FairSpec == Spec /\ Fairness

\* SpecSession: one Sync call on a wired reactor of either constructor, with
\* every response message any peer may send. A NewReactor reactor handles
\* them in Start, a NewReactorDeprecated reactor in Receive.
OneCaller == {1}

InitSession == Constructed({"NewReactor", "NewReactorDeprecated"}, {<<>>}, TRUE)

NextSession ==
  \/ Cancel
  \/ \E c \in OneCaller : SyncCall(c)
  \/ \E c \in OneCaller : SyncLockWait(c)
  \/ \E c \in OneCaller : SyncCheck(c)
  \/ \E c \in OneCaller : SyncBroadcast(c)
  \/ \E c \in OneCaller : SyncReset(c)
  \/ \E c \in OneCaller : DiscoveryExpires(c)
  \/ \E c \in OneCaller : FetchRequest(c)
  \/ \E c \in OneCaller : Restore(c)
  \/ StartBegin
  \/ StartResponse(Peers, Responses)
  \/ StartLogOnly(Peers)
  \/ StartLoop
  \/ StartReturn
  \/ \E p \in Peers : ReceiveResponse(p, Responses)
  \/ \E p \in Peers : ReceiveResume(p)
  \/ \E p \in Peers : ReceiveReturn(p)

SpecSession == InitSession /\ [][NextSession]_vars

\* SpecServe: the reactor serving SnapshotsRequest, in Start for a reactor
\* that was not started as a service and in Receive for a wired
\* NewReactorDeprecated reactor
RECURSIVE Repeat(_, _)
Repeat(x, n) == IF n = 0 THEN <<>> ELSE <<x>> \o Repeat(x, n - 1)

RECURSIVE SeqsUpTo(_, _)
SeqsUpTo(S, n) ==
  IF n = 0 THEN {<<>>}
  ELSE LET shorter == SeqsUpTo(S, n - 1)
       IN shorter \cup {Append(s, x) : s \in shorter, x \in S}

\* what the application may list: up to MaxFree snapshots in any order,
\* alone or followed by MaxPad copies of one snapshot
ListDomain ==
  {free \o Repeat(x, n) : free \in SeqsUpTo(SnapDomain, MaxFree),
                          x \in SnapDomain, n \in {0, MaxPad}}

InitServe ==
  \/ Constructed({"NewReactor", "literal"}, ListDomain, FALSE)
  \/ Constructed({"NewReactorDeprecated"}, ListDomain, TRUE)

NextServe ==
  \/ RouterDrainSnapshot
  \/ StartBegin
  \/ StartSnapshotsRequest
  \/ StartSend
  \/ StartLoop
  \/ \E p \in Peers : ReceiveSnapshotsRequest(p)
  \/ \E p \in Peers : ReceiveReturn(p)

SpecServe == InitServe /\ [][NextServe]_vars

\* SpecLoad: the reactor serving ChunkRequest
InitLoad ==
  \/ Constructed({"NewReactor", "literal"}, {<<>>}, FALSE)
  \/ Constructed({"NewReactorDeprecated"}, {<<>>}, TRUE)

NextLoad ==
  \/ RouterDrainChunk
  \/ StartBegin
  \/ StartChunkRequest(ChunkRequests)
  \/ StartSendChunk
  \/ StartLoop
  \/ \E p \in Peers : ReceiveChunkRequest(p, ChunkRequests)
  \/ \E p \in Peers : ReceiveReturn(p)

SpecLoad == InitLoad /\ [][NextLoad]_vars

\* SpecEvents: what is not a request or a response: unknown messages and
\* peer updates in Start, unknown or misrouted messages in Receive, and the
\* AddPeer and RemovePeer callbacks, with one Sync call and the responses
\* that give its session something to keep books on
NextEvents ==
  \/ Cancel
  \/ \E c \in OneCaller : SyncCall(c)
  \/ \E c \in OneCaller : SyncLockWait(c)
  \/ \E c \in OneCaller : SyncCheck(c)
  \/ \E c \in OneCaller : SyncBroadcast(c)
  \/ \E c \in OneCaller : SyncReset(c)
  \/ \E c \in OneCaller : DiscoveryExpires(c)
  \/ \E c \in OneCaller : FetchRequest(c)
  \/ \E c \in OneCaller : Restore(c)
  \/ StartBegin
  \/ StartResponse(Peers, FewResponses)
  \/ StartLogOnly(Peers)
  \/ StartLoop
  \/ StartReturn
  \/ \E p \in Peers : ReceiveResponse(p, FewResponses)
  \/ \E p \in Peers : ReceiveResume(p)
  \/ \E p \in Peers : ReceiveLogOnly(p, Responses \cup {UnknownMessage})
  \/ \E p \in Peers : AddPeer(p)
  \/ \E p \in Peers : RemovePeer(p)
  \/ \E p \in Peers : ReceiveReturn(p)

SpecEvents == InitSession /\ [][NextEvents]_vars

\* SpecLoop: the Start loop with every case of its select, on a reactor that
\* has its channels, next to the router draining the Out queues and one Sync
\* call, followed up to its SyncAny. No other reader holds the mutex here,
\* so a Start that waits in RLock behind the Sync call is not let in again.
LoopLists == {<<>>, <<sB, sA>>}

OneChunkRequest == {ChunkRequest(sB.Height, sB.Format, 0)}

InitLoop == Constructed({"NewReactor", "literal"}, LoopLists, TRUE)

NextLoop ==
  \/ Cancel
  \/ RouterDrainSnapshot
  \/ RouterDrainChunk
  \/ \E c \in OneCaller : SyncCall(c)
  \/ \E c \in OneCaller : SyncLockWait(c)
  \/ \E c \in OneCaller : SyncCheck(c)
  \/ \E c \in OneCaller : SyncBroadcast(c)
  \/ StartBegin
  \/ StartSnapshotsRequest
  \/ StartSend
  \/ StartChunkRequest(OneChunkRequest)
  \/ StartSendChunk
  \/ StartResponse(OnePeer, FewResponses)
  \/ StartLogOnly(OnePeer)
  \/ StartLoop
  \/ StartReturn

SpecLoop == InitLoop /\ [][NextLoop]_vars

\* the scheduler runs every goroutine that can take a step, and a select
\* that is entered again and again with ctx.Done() ready picks that case in
\* the end, since it chooses at random among the ready cases. When messages
\* arrive, when the context is cancelled and whether the router drains the
\* Out queues is up to the environment.
FairnessLoop ==
  /\ \A c \in OneCaller :
       /\ WF_vars(SyncLockWait(c))
       /\ WF_vars(SyncCheck(c))
       /\ WF_vars(SyncBroadcast(c))
  /\ WF_vars(StartBegin)
  /\ WF_vars(StartSend)
  /\ WF_vars(StartSendChunk)
  /\ WF_vars(StartLoop)
  /\ SF_vars(StartReturn)

FairLoop == SpecLoop /\ FairnessLoop

\* SpecSelect: the select of the Start loop with the In queues in view, on a
\* reactor with every field set: the router delivers requests, responses and
\* messages that are not the channel's, and Start takes them one by one
SnapshotInbound == {SnapshotsRequest} \cup FewResponses

ChunkInbound == OneChunkRequest \cup FewResponses \cup {UnknownMessage}

InitSelect == Constructed({"literal"}, LoopLists, TRUE)

NextSelect ==
  \/ Cancel
  \/ RouterDeliverSnapshot(OnePeer, SnapshotInbound)
  \/ RouterDeliverChunk(OnePeer, ChunkInbound)
  \/ RouterDrainSnapshot
  \/ RouterDrainChunk
  \/ StartBegin
  \/ StartSelect
  \/ StartSwitch
  \/ StartSend
  \/ StartSendChunk
  \/ StartLoop
  \/ StartDone

SpecSelect == InitSelect /\ [][NextSelect]_vars

\* SpecSyncer: one session fed by the responses of every peer, with every
\* snapshot a peer may advertise, among them two that differ in the hash
\* alone
AllResponses == {SnapshotsResponse(s) : s \in SnapDomain} \cup ChunkResponses

InitSyncer == Constructed({"NewReactor"}, {<<>>}, TRUE)

NextSyncer ==
  \/ \E c \in OneCaller : SyncCall(c)
  \/ \E c \in OneCaller : SyncLockWait(c)
  \/ \E c \in OneCaller : SyncCheck(c)
  \/ \E c \in OneCaller : SyncBroadcast(c)
  \/ \E c \in OneCaller : SyncReset(c)
  \/ \E c \in OneCaller : DiscoveryExpires(c)
  \/ \E c \in OneCaller : FetchRequest(c)
  \/ \E c \in OneCaller : Restore(c)
  \/ StartBegin
  \/ StartResponse(Peers, AllResponses)
  \/ StartLoop

SpecSyncer == InitSyncer /\ [][NextSyncer]_vars

\* SpecFetch: one session on a running NewReactorDeprecated reactor, fed by
\* Receive: both peers advertise the snapshot of three chunks and send its
\* chunks in any order, any number of times, chunk 0 with either of two
\* payloads
FetchResponses ==
  {SnapshotsResponse(sD)}
    \cup {ChunkResponse(sD.Height, sD.Format, i, "data", FALSE) : i \in 0..(sD.Chunks - 1)}
    \cup {ChunkResponse(sD.Height, sD.Format, 0, "empty", FALSE)}

NextFetch ==
  \/ \E c \in OneCaller : SyncCall(c)
  \/ \E c \in OneCaller : SyncLockWait(c)
  \/ \E c \in OneCaller : SyncCheck(c)
  \/ \E c \in OneCaller : SyncBroadcast(c)
  \/ \E c \in OneCaller : SyncReset(c)
  \/ \E c \in OneCaller : DiscoveryExpires(c)
  \/ \E c \in OneCaller : FetchRequest(c)
  \/ \E c \in OneCaller : Restore(c)
  \/ \E p \in Peers : ReceiveResponse(p, FetchResponses)
  \/ \E p \in Peers : ReceiveResume(p)
  \/ \E p \in Peers : ReceiveReturn(p)

SpecFetch ==
  Constructed({"NewReactorDeprecated"}, {<<>>}, TRUE) /\ [][NextFetch]_vars

\* the goroutine running SyncAny is scheduled: once every chunk is there the
\* restoration is started
FairFetch == SpecFetch /\ \A c \in OneCaller : WF_vars(Restore(c))

\* SpecRetry: one session on a running NewReactorDeprecated reactor whose
\* requests may time out and whose peers may go down, fed by Receive with the
\* advertisement of the two-chunk snapshot and its chunk 0; chunk 1 is never
\* delivered
RetryResponses ==
  {SnapshotsResponse(sA), ChunkResponse(sA.Height, sA.Format, 0, "data", FALSE)}

NextRetry ==
  \/ \E c \in OneCaller : SyncCall(c)
  \/ \E c \in OneCaller : SyncLockWait(c)
  \/ \E c \in OneCaller : SyncCheck(c)
  \/ \E c \in OneCaller : SyncBroadcast(c)
  \/ \E c \in OneCaller : SyncReset(c)
  \/ \E c \in OneCaller : DiscoveryExpires(c)
  \/ \E c \in OneCaller : FetchRequest(c)
  \/ \E c \in OneCaller : RequestTimeout(c)
  \/ \E c \in OneCaller : FetchFails(c)
  \/ \E p \in Peers : ReceiveResponse(p, RetryResponses)
  \/ \E p \in Peers : ReceiveResume(p)
  \/ \E p \in Peers : RemovePeer(p)
  \/ \E p \in Peers : ReceiveReturn(p)

SpecRetry ==
  Constructed({"NewReactorDeprecated"}, {<<>>}, TRUE) /\ [][NextRetry]_vars

\* the goroutine running SyncAny is scheduled: a sync that has to fail fails
FairRetry == SpecRetry /\ \A c \in OneCaller : WF_vars(FetchFails(c))

\* SpecRouter: the snapshot channel between any sender and the peers, whose
\* status changes as the router connects, loses, removes and bans them
NextRouter ==
  \/ \E p \in Peers : PeerDial(p)
  \/ \E p \in Peers : PeerDisconnect(p)
  \/ \E p \in Peers, status \in {"removed", "banned"} : PeerRetire(p, status)
  \/ ChannelSend(OutEnvelopes(OnePeer))
  \/ ChannelRoute

SpecRouter == Constructed({"NewReactor"}, {<<>>}, TRUE) /\ [][NextRouter]_vars

\* SpecRecent: recentSnapshots called with a count below, at and above the
\* package constant, on every list the application may give
\* one valid message of each type
ValidMessages == {SnapshotsRequest} \cup OneChunkRequest \cup FewResponses

\* a reactor with all its fields, added to a Switch and started by it, is
\* called by peers' connections and by the Switch while the Start loop and
\* Sync run
NextLegacy ==
  \/ SetSwitch
  \/ OnStart
  \/ \E c \in OneCaller : SyncCall(c)
  \/ \E c \in OneCaller : SyncLockWait(c)
  \/ \E c \in OneCaller : SyncCheck(c)
  \/ \E c \in OneCaller : SyncBroadcast(c)
  \/ StartBegin
  \/ StartWrongChannel(OnePeer, ValidMessages)
  \/ StartLoop
  \/ \E p \in Peers : ReceiveNotRunning(p)
  \/ \E p \in Peers : ReceiveBadBytes(p)
  \/ \E p \in Peers : ReceiveLogOnly(p, ValidMessages)
  \/ \E p \in Peers : AddPeer(p)
  \/ \E p \in Peers : RemovePeer(p)
  \/ \E p \in Peers : ReceiveReturn(p)

SpecLegacy == Constructed({"literal"}, {<<>>}, FALSE) /\ [][NextLegacy]_vars

\* ------------------------------------------------------------ Wrapper
\* the contents of PingMessage and PongMessage
Contents == SeqsUpTo({"a", "b"}, MaxContent)

\* the Protobuf messages handed to Wrap: PingMessage and PongMessage, and a
\* message type that EchoMessage does not contain
InnerMessages ==
  [type : {"PingMessage", "PongMessage", "OtherMessage"}, content : Contents]

\* no message: the nil that Unwrap returns beside an error
NilMessage == [type |-> "nil"]

\* EchoMessage values by what the oneof field Inner holds: nothing, a
\* PingMessage, a PongMessage, or a case this code does not know
EchoMessages ==
  {[Inner |-> [case |-> "nil"]], [Inner |-> [case |-> "unknown"]]}
    \cup {[Inner |-> [case |-> "EchoMessage_PingMessage", PingMessage |-> i]] :
            i \in {x \in InnerMessages : x.type = "PingMessage"}}
    \cup {[Inner |-> [case |-> "EchoMessage_PongMessage", PongMessage |-> i]] :
            i \in {x \in InnerMessages : x.type = "PongMessage"}}

\* (m *EchoMessage) Wrap(inner): m after the call and whether an error is
\* returned
Wrap(m, inner) ==
  IF inner.type = "PingMessage"
  THEN [msg |-> [Inner |-> [case |-> "EchoMessage_PingMessage", PingMessage |-> inner]],
        err |-> FALSE]
  ELSE IF inner.type = "PongMessage"
  THEN [msg |-> [Inner |-> [case |-> "EchoMessage_PongMessage", PongMessage |-> inner]],
        err |-> FALSE]
  ELSE [msg |-> m, err |-> TRUE]

\* Unwrap handing out a PongMessage as a PingMessage of the same content
UnwrapPongAsPing(m) ==
  IF m.Inner.case = "EchoMessage_PingMessage"
  THEN [msg |-> m.Inner.PingMessage, err |-> FALSE]
  ELSE IF m.Inner.case = "EchoMessage_PongMessage"
  THEN [msg |-> [type |-> "PingMessage", content |-> m.Inner.PongMessage.content],
        err |-> FALSE]
  ELSE [msg |-> NilMessage, err |-> TRUE]

\* (m *EchoMessage) Unwrap(): the message and whether an error is returned
Unwrap(m) ==
  IF m.Inner.case = "EchoMessage_PingMessage"
  THEN [msg |-> m.Inner.PingMessage, err |-> FALSE]
  ELSE IF m.Inner.case = "EchoMessage_PongMessage"
  THEN [msg |-> m.Inner.PongMessage, err |-> FALSE]
  ELSE [msg |-> NilMessage, err |-> TRUE]

\* a call is recorded and nothing of the reactor changes
CallRecorded(fn, arg, listed, ret) ==
  /\ lastCall' = [fn |-> fn, arg |-> arg, listed |-> listed,
                  result |-> <<ret.msg>>, err |-> ret.err]
  /\ UNCHANGED <<wiringVars, netVars, inVars, running, ctxDone, panicked,
                 syncer, mtx, startVars, syncVars, recvVars, outVars, appSnapshots>>

\* the channel wraps an outbound message: m.Wrap(inner) on some EchoMessage
WrapCall ==
  \E m \in EchoMessages, inner \in InnerMessages :
    CallRecorded("Wrap", <<m, inner>>, <<>>, Wrap(m, inner))

\* the EchoMessage that Wrap has just filled is unwrapped again
UnwrapWrapped ==
  /\ lastCall.fn = "Wrap"
  /\ ~lastCall.err
  /\ CallRecorded("Unwrap", lastCall.result, <<lastCall.arg[2]>>,
                  Unwrap(lastCall.result[1]))

\* the channel unwraps an inbound EchoMessage, whatever it holds
UnwrapCall ==
  \E m \in EchoMessages : CallRecorded("Unwrap", <<m>>, <<>>, Unwrap(m))

NextWrapper ==
  \/ WrapCall
  \/ UnwrapWrapped
  \/ UnwrapCall

SpecWrapper == Constructed({"literal"}, {<<>>}, FALSE) /\ [][NextWrapper]_vars

RecentCounts == {1, recentSnapshots, recentSnapshots + 1}

NextRecent == RecentSnapshotsCall(RecentCounts)

SpecRecent ==
  Constructed({"NewReactorDeprecated"}, ListDomain, TRUE) /\ [][NextRecent]_vars

\* SpecFrame: everything that runs next to a Sync call: every case of the
\* Start loop on a reactor built with all its fields, which is driven through
\* its channels only, and every Receive, AddPeer and RemovePeer call on a
\* NewReactorDeprecated reactor
NextFrame ==
  \/ Cancel
  \/ \E c \in OneCaller : SyncCall(c)
  \/ \E c \in OneCaller : SyncLockWait(c)
  \/ \E c \in OneCaller : SyncCheck(c)
  \/ \E c \in OneCaller : SyncBroadcast(c)
  \/ \E c \in OneCaller : SyncReset(c)
  \/ \E c \in OneCaller : DiscoveryExpires(c)
  \/ \E c \in OneCaller : Restore(c)
  \/ StartBegin
  \/ StartSnapshotsRequest
  \/ StartSend
  \/ StartChunkRequest(OneChunkRequest)
  \/ StartSendChunk
  \/ StartResponse(OnePeer, FewResponses)
  \/ StartLogOnly(OnePeer)
  \/ StartLoop
  \/ StartReturn
  \/ \E p \in OnePeer : ctor = "NewReactorDeprecated" /\ ReceiveSnapshotsRequest(p)
  \/ \E p \in OnePeer :
       ctor = "NewReactorDeprecated" /\ ReceiveChunkRequest(p, OneChunkRequest)
  \/ \E p \in OnePeer :
       ctor = "NewReactorDeprecated" /\ ReceiveResponse(p, FewResponses)
  \/ \E p \in OnePeer :
       ctor = "NewReactorDeprecated" /\ ReceiveLogOnly(p, {UnknownMessage})
  \/ \E p \in OnePeer : ctor = "NewReactorDeprecated" /\ AddPeer(p)
  \/ \E p \in OnePeer : ctor = "NewReactorDeprecated" /\ RemovePeer(p)
  \/ \E p \in OnePeer : ctor = "NewReactorDeprecated" /\ ReceiveReturn(p)

SpecFrame ==
  Constructed({"literal", "NewReactorDeprecated"}, LoopLists, TRUE)
    /\ [][NextFrame]_vars

\* SpecPaths: a running reactor with all its fields, next to one Sync call
\* that is followed into its SyncAny. Each message the Start loop has taken
\* off a channel and handled may also be handed to Receive before the loop
\* comes round, as if the peer had sent it on both paths.
NextPaths ==
  \/ RouterDrainSnapshot
  \/ RouterDrainChunk
  \/ \E c \in OneCaller : SyncCall(c)
  \/ \E c \in OneCaller : SyncLockWait(c)
  \/ \E c \in OneCaller : SyncCheck(c)
  \/ \E c \in OneCaller : SyncBroadcast(c)
  \/ \E c \in OneCaller : DiscoveryExpires(c)
  \/ StartBegin
  \/ StartSnapshotsRequest
  \/ StartSend
  \/ StartChunkRequest(OneChunkRequest)
  \/ StartSendChunk
  \/ StartResponse(OnePeer, FewResponses)
  \/ (\A p \in Peers : recvPc[p] = "idle") /\ StartLoop
  \/ \E p \in {startLocal.from} \cap OnePeer :
       /\ startPc = "loop"
       /\ startLocal.kind = "SnapshotsRequest"
       /\ ReceiveSnapshotsRequest(p)
  \/ \E p \in {startLocal.from} \cap OnePeer :
       /\ startPc = "loop"
       /\ ReceiveChunkRequest(p, {startLocal.msg} \cap OneChunkRequest)
  \/ \E p \in {startLocal.from} \cap OnePeer :
       /\ startPc = "loop"
       /\ ReceiveResponse(p, {startLocal.msg} \cap FewResponses)
  \/ \E p \in OnePeer : ReceiveReturn(p)

SpecPaths == Constructed({"literal"}, LoopLists, TRUE) /\ [][NextPaths]_vars

\* ------------------------------------------------------------ claims
BusyReturn ==
  [returned |-> TRUE, state |-> 0, commit |-> 0, err |-> SyncBusyError]

\* C1: in every reachable state the session slot is empty or holds the session
\* of the one Sync call that is between its "already in progress" check and
\* its return, and every such call finds its own session in the slot
C1_AtMostOneSession ==
  /\ syncer.owner # NoCaller => syncPc[syncer.owner] \in SyncActive
  /\ \A c \in SyncCallers : syncPc[c] \in SyncActive => syncer.owner = c
  /\ Cardinality({c \in SyncCallers : syncPc[c] \in SyncActive}) <= 1

\* a session is active, a concurrent Sync call was turned away and the Start
\* loop has handled a response in the meantime
C1_Witness ==
  /\ syncer.owner = 1
  /\ syncPc[1] = "syncany"
  /\ syncRet[2] = BusyReturn
  /\ startDefers > 0

\* C2: a Sync call whose check finds a session returns the "already in
\* progress" error with an empty state and a nil commit; that step leaves the
\* slot and the session as they were and the call has broadcast nothing and
\* never reaches SyncAny
C2_RejectedSyncHasNoEffect ==
  [][\A c \in SyncCallers :
       (/\ syncPc[c] \in {"lock1", "wait1"}
        /\ syncPc'[c] \notin {"lock1", "wait1"}
        /\ syncer.owner # NoCaller)
       => /\ syncPc'[c] = "done"
          /\ syncRet'[c] = BusyReturn
          /\ syncer' = syncer
          /\ bcast' = bcast
          /\ bcast[c] = <<>>
          /\ snapOut' = snapOut /\ chunkOut' = chunkOut]_vars

\* a Sync call was rejected while the other call's session, holding a
\* discovered snapshot, is in the slot
C2_Witness ==
  /\ syncRet[2] = BusyReturn
  /\ syncPc[2] = "done"
  /\ syncer.owner = 1
  /\ syncer.snapshots # {}

\* C3 (as claimed): whenever the Start loop is at the top of an iteration it
\* holds no read lock on the reactor mutex
C3_LoopTopHoldsNoReadLock ==
  startPc = "select" => startDefers = 0

\* C4 (as claimed): once SyncAny has returned inside Sync, the slot is reset
\* and Sync returns, unless the process has died
C4_SyncAnyReturnLeadsToReset ==
  \A c \in SyncCallers :
    (syncPc[c] = "lock2" /\ ~panicked) ~> (syncPc[c] = "done" \/ panicked)

\* the Broadcast calls a Sync call has issued, by its position
C5_BroadcastCount(c) ==
  IF syncPc[c] \in {"syncany", "lock2", "wait2"}
     \/ (syncPc[c] = "done" /\ syncRet[c] # BusyReturn)
  THEN bcast[c] = <<[ch |-> SnapshotChannel, msg |-> SnapshotsRequest]>>
  ELSE bcast[c] = <<>>

\* the Start loop or a Receive call finishes a SnapshotsResponse in this step
\* as "no state sync in progress"
C5_DiscardStep ==
  \/ /\ startLocal' # startLocal
     /\ startLocal'.kind = "SnapshotsResponse"
     /\ startLocal'.outcome = "noSession"
  \/ \E p \in Peers :
       /\ recvLocal'[p] # recvLocal[p]
       /\ recvLocal'[p].kind = "SnapshotsResponse"
       /\ recvLocal'[p].outcome = "noSession"

\* C5 (as claimed): a Sync call that starts a session broadcasts one
\* SnapshotsRequest on the snapshot channel, with its session already in the
\* slot, and no SnapshotsResponse handled after a broadcast is discarded
C5_Original ==
  /\ [](\A c \in SyncCallers :
          /\ C5_BroadcastCount(c)
          /\ syncPc[c] = "broadcast" => syncer.owner = c)
  /\ [][C5_DiscardStep => \A c \in SyncCallers : bcast[c] = <<>>]_vars

\* C5 (amended): ... and no SnapshotsResponse handled between a call's
\* broadcast and that call's reset of the slot is discarded
C5_BroadcastAfterInstall ==
  /\ [](\A c \in SyncCallers :
          /\ C5_BroadcastCount(c)
          /\ syncPc[c] = "broadcast" => syncer.owner = c)
  /\ [][C5_DiscardStep =>
          \A c \in SyncCallers : syncPc[c] \notin {"syncany", "lock2", "wait2"}]_vars

\* the Start loop has handed a SnapshotsResponse to the session of a Sync call
\* that has broadcast its request
C5_Witness ==
  /\ startLocal.kind = "SnapshotsResponse"
  /\ startLocal.outcome = "added"
  /\ syncer.owner # NoCaller
  /\ bcast[syncer.owner] # <<>>

\* the Start loop finishes handling a message of the given type in this step
StartHandles(type) ==
  /\ startLocal' # startLocal
  /\ startLocal'.kind = type
  /\ startLocal'.outcome # "blocked"

\* src's Receive call finishes handling a message of the given type in this step
ReceiveHandles(src, type) ==
  /\ recvLocal'[src] # recvLocal[src]
  /\ recvLocal'[src].kind = type
  /\ recvLocal'[src].outcome # "blocked"

\* nothing but the mutex and the handler's own frame changes
SessionAndQueuesUntouched ==
  /\ syncer' = syncer
  /\ snapOut' = snapOut /\ chunkOut' = chunkOut
  /\ bcast' = bcast /\ syncRet' = syncRet

\* what handling a response must amount to: without a session nothing, with
\* one exactly the given call on it, and no outbound message either way
ResponseForwarded(local, call) ==
  /\ local.sent = <<>>
  /\ snapOut' = snapOut /\ chunkOut' = chunkOut
  /\ IF syncer.owner = NoCaller
     THEN /\ local.outcome = "noSession"
          /\ local.calls = <<>>
          /\ SessionAndQueuesUntouched
     ELSE /\ local.outcome \in {"added", "addError"}
          /\ local.calls = <<call>>

C6_Call(local) ==
  [op |-> "AddSnapshot", peer |-> local.from,
   arg |-> [Height |-> local.msg.Height, Format |-> local.msg.Format,
            Chunks |-> local.msg.Chunks, Hash |-> local.msg.Hash,
            Metadata |-> local.msg.Metadata]]

\* C6: a SnapshotsResponse handled without a session changes neither the slot,
\* the session nor any queue and sends nothing; with a session AddSnapshot is
\* called exactly once, with the sender and the message's five fields
C6_SnapshotsResponseForwarded ==
  [][/\ StartHandles("SnapshotsResponse")
        => ResponseForwarded(startLocal', C6_Call(startLocal'))
     /\ \A p \in Peers :
          ReceiveHandles(p, "SnapshotsResponse")
          => /\ recvLocal'[p].from = p
             /\ ResponseForwarded(recvLocal'[p], C6_Call(recvLocal'[p]))]_vars

\* the Start loop has added peer 2's advertisement of sB to a session that
\* already held peer 1's
C6_Witness ==
  /\ startLocal.kind = "SnapshotsResponse"
  /\ startLocal.outcome = "added"
  /\ startLocal.from = 2
  /\ [snap |-> sB, peers |-> {1, 2}] \in syncer.snapshots

C7_Call(local) ==
  [op |-> "AddChunk", peer |-> NoPeer,
   arg |-> [Height |-> local.msg.Height, Format |-> local.msg.Format,
            Index |-> local.msg.Index, Chunk |-> local.msg.Chunk,
            Sender |-> local.from]]

\* C7: a ChunkResponse handled without a session changes neither the slot, the
\* session nor any queue and sends nothing; with a session AddChunk is called
\* exactly once, with the message's coordinates and payload and the sender
C7_ChunkResponseForwarded ==
  [][/\ StartHandles("ChunkResponse")
        => ResponseForwarded(startLocal', C7_Call(startLocal'))
     /\ \A p \in Peers :
          ReceiveHandles(p, "ChunkResponse")
          => /\ recvLocal'[p].from = p
             /\ ResponseForwarded(recvLocal'[p], C7_Call(recvLocal'[p]))]_vars

\* the Start loop has handed peer 2's chunk 0 to a session that was fetching
\* it, and the session took it
C7_Witness ==
  /\ startLocal.kind = "ChunkResponse"
  /\ startLocal.outcome = "added"
  /\ startLocal.from = 2
  /\ ~startLocal.msg.Missing
  /\ syncer.retrieved = {0}

TupleGreater(a, b) ==
  \/ a.Height > b.Height
  \/ a.Height = b.Height /\ a.Format > b.Format

Count(x, s) == Cardinality({i \in DOMAIN s : s[i] = x})

\* msgs are min(10, |listed|) SnapshotsResponse messages, one per listed
\* snapshot, in descending (Height, Format) order, and nothing left out is
\* larger than anything sent
TopAdvertised(listed, msgs) ==
  LET all == [i \in DOMAIN listed |-> SnapshotsResponse(listed[i])] IN
  /\ Len(msgs) = Min(10, Len(listed))
  /\ \A i \in DOMAIN msgs : Count(msgs[i], msgs) <= Count(msgs[i], all)
  /\ \A i, j \in DOMAIN msgs : i < j => ~TupleGreater(msgs[j], msgs[i])
  /\ \A k \in DOMAIN all :
       Count(all[k], msgs) < Count(all[k], all)
       => \A i \in DOMAIN msgs : ~TupleGreater(all[k], msgs[i])

\* C8: a SnapshotsRequest from P that the application answers with a list is
\* answered with the top min(10, |list|) snapshots by (Height, Format), one
\* SnapshotsResponse each, all of them addressed to P alone
C8_TopSnapshotsAdvertised ==
  /\ (startPc = "loop" /\ startLocal.kind = "SnapshotsRequest"
        /\ startLocal.outcome = "listed")
     => /\ TopAdvertised(startLocal.listed,
                         [i \in DOMAIN startLocal.sent |-> startLocal.sent[i].Message])
        /\ \A i \in DOMAIN startLocal.sent :
             /\ startLocal.sent[i].To = startLocal.from
             /\ ~startLocal.sent[i].Broadcast
  /\ \A p \in Peers :
       (recvPc[p] = "ret" /\ recvLocal[p].kind = "SnapshotsRequest"
          /\ recvLocal[p].outcome = "listed")
       => /\ TopAdvertised(recvLocal[p].listed,
                           [i \in DOMAIN recvLocal[p].sent |-> recvLocal[p].sent[i].msg])
          /\ \A i \in DOMAIN recvLocal[p].sent :
               /\ recvLocal[p].sent[i].to = p
               /\ recvLocal[p].sent[i].ch = SnapshotChannel

\* the Start loop has answered a request for which the application listed
\* eleven snapshots, the largest of them last
C8_Witness ==
  /\ startPc = "loop"
  /\ startLocal.kind = "SnapshotsRequest"
  /\ startLocal.outcome = "listed"
  /\ Len(startLocal.listed) = 11
  /\ startLocal.listed[1] = sD
  /\ startLocal.listed[11] = sB
  /\ Len(startLocal.sent) = 10

C9_Response(local) ==
  [type |-> "ChunkResponse", Height |-> local.msg.Height,
   Format |-> local.msg.Format, Index |-> local.msg.Index,
   Chunk |-> local.listed[1], Missing |-> (local.listed[1] = "nil")]

\* C9: a ChunkRequest from P whose load succeeds is answered with exactly one
\* ChunkResponse to P that echoes Height, Format and Index, carries what was
\* loaded and has Missing set if and only if the loaded chunk is nil
C9_ChunkRequestAnswered ==
  /\ (startPc = "loop" /\ startLocal.kind = "ChunkRequest"
        /\ startLocal.outcome = "loaded")
     => startLocal.sent =
          <<Envelope(NoPeer, startLocal.from, FALSE, C9_Response(startLocal))>>
  /\ \A p \in Peers :
       (recvPc[p] = "ret" /\ recvLocal[p].kind = "ChunkRequest"
          /\ recvLocal[p].outcome = "loaded")
       => recvLocal[p].sent =
            <<[to |-> p, ch |-> ChunkChannel, msg |-> C9_Response(recvLocal[p])]>>

\* the Start loop has answered a request for which the application loaded a
\* present chunk of length zero
C9_Witness ==
  /\ startPc = "loop"
  /\ startLocal.kind = "ChunkRequest"
  /\ startLocal.outcome = "loaded"
  /\ startLocal.listed = <<"empty">>
  /\ Len(startLocal.sent) = 1
  /\ ~startLocal.sent[1].Message.Missing

\* a peer error naming the peer has been reported (the router's queue of
\* peer-error reports, or StopPeerForError in the legacy path)
PeerErrorReported(local, peer) == local.stopped = <<peer>>

\* C11: whenever the Start loop or Receive has handled a message of an
\* unrecognized type on the snapshot or the chunk channel, a peer error that
\* asks for the sender to be disconnected has been reported
C11_UnknownMessageReportsPeer ==
  /\ (startPc = "loop" /\ startLocal.kind = "Unknown")
       => PeerErrorReported(startLocal, startLocal.from)
  /\ \A p \in Peers :
       (/\ recvPc[p] = "ret"
        /\ recvLocal[p].kind = "Unknown"
        /\ recvLocal[p].ch \in {SnapshotChannel, ChunkChannel})
       => PeerErrorReported(recvLocal[p], p)

\* C12: once the context is cancelled, Start eventually returns (or the
\* process has died of a panic), whatever is queued, however full the Out
\* queues are and whether or not a Sync call waits for the lock
C12_CancelLeadsToReturn ==
  ctxDone ~> (startPc = "returned" \/ panicked)

\* C13: Start returns only from its select and only with the context
\* cancelled; after a handler has ended with a failure of the application, an
\* AddSnapshot or AddChunk error, an unknown message or a message without a
\* session, the loop can come round, and when it does it is back at the
\* select with nothing left of the message, neither returned nor panicked
C13_OnlyCancellationEndsLoop ==
  [][/\ (startPc # "returned" /\ startPc' = "returned")
          => (startPc = "select" /\ ctxDone)
     /\ (startPc = "loop" /\ startLocal.outcome \in HandlerFailures)
          => /\ ENABLED StartLoop
             /\ (startPc' # startPc \/ startLocal' # startLocal)
                  => (startPc' = "select" /\ startLocal' = NoLocal /\ ~panicked')]_vars

\* the loop has handled two responses and is at the end of a third message,
\* whose chunk could not be loaded, with the context not cancelled
C13_Witness ==
  /\ startPc = "loop"
  /\ startLocal.outcome = "loadError"
  /\ startDefers >= 2
  /\ ~ctxDone

\* C16: the select is entered with nothing left of an earlier message; while
\* a message is handled every envelope put on an Out queue answers that
\* message; the handling is over only when every response it listed has been
\* sent and at most one session call was made; and a step that takes a
\* message takes one message or the cancellation, not both
C16_OneMessageAtATime ==
  [][/\ startPc = "select" => startLocal = NoLocal
     /\ (snapOut' # snapOut /\ Len(snapOut') > Len(snapOut))
          => /\ startPc = "send"
             /\ snapOut'[Len(snapOut')].To = startLocal.from
             /\ startLocal'.from = startLocal.from /\ startLocal'.msg = startLocal.msg
     /\ (chunkOut' # chunkOut /\ Len(chunkOut') > Len(chunkOut))
          => /\ startPc = "sendchunk"
             /\ chunkOut'[Len(chunkOut')].To = startLocal.from
             /\ startLocal'.from = startLocal.from /\ startLocal'.msg = startLocal.msg
     /\ startPc' = "loop"
          => /\ startLocal'.outcome \in {"listed", "loaded"}
                  => Len(startLocal'.sent) = Len(startLocal'.list)
             /\ Len(startLocal'.calls) <= 1
     /\ (startPc = "select" /\ startPc' # "select")
          => \/ startPc' = "returned" /\ startLocal' = NoLocal
             \/ startPc' # "returned" /\ startLocal'.kind # "none"]_vars

\* both advertisements that answer a SnapshotsRequest have been sent, after
\* an earlier response was handled
C16_Witness ==
  /\ startPc = "loop"
  /\ startLocal.kind = "SnapshotsRequest"
  /\ Len(startLocal.sent) = 2
  /\ startDefers > 0

\* the session keeps no books on the peer: it advertises nothing and no
\* request to it is outstanding
ForgottenBy(sess, peer) ==
  /\ \A e \in sess.snapshots : peer \notin e.peers
  /\ \A r \in sess.requested : r[2] # peer

\* C14: every step in which a peer update is handled while a session is
\* active tells the session of it, in the Start loop as in the AddPeer and
\* RemovePeer callbacks, and after a peer went down the session keeps no
\* books on it
C14_PeerUpdateReachesSession ==
  [][/\ (/\ startPc = "select"
         /\ startPc' = "loop"
         /\ startLocal'.kind = "peerUpdate"
         /\ syncer.owner # NoCaller)
        => /\ Len(startLocal'.calls) = 1
           /\ startLocal'.calls[1].op \in {"AddPeer", "RemovePeer"}
     /\ \A p \in Peers :
          (/\ recvPc[p] = "idle"
           /\ recvPc'[p] = "ret"
           /\ recvLocal'[p].kind \in {"AddPeer", "RemovePeer"}
           /\ syncer.owner # NoCaller)
          => /\ recvLocal'[p].calls =
                  <<[op |-> recvLocal'[p].kind, peer |-> p, arg |-> [ID |-> p]]>>
             /\ recvLocal'[p].kind = "RemovePeer" => ForgottenBy(syncer', p)]_vars

\* C15: from SyncAny's return to the return of Sync the triple is not
\* touched, the step that returns it empties the session slot whatever the
\* error, and a call that has returned anything but "already in progress"
\* has left no session of its own behind
C15_SyncAnyResultReturned ==
  [][\A c \in SyncCallers :
       /\ syncPc[c] \in {"lock2", "wait2"}
            => /\ syncRet'[c].state = syncRet[c].state
               /\ syncRet'[c].commit = syncRet[c].commit
               /\ syncRet'[c].err = syncRet[c].err
               /\ syncPc'[c] = "done" => (syncRet'[c].returned /\ syncer' = NoSyncer)
       /\ (syncPc'[c] = "done" /\ syncRet'[c].err # SyncBusyError)
            => syncer'.owner # c]_vars

\* a Sync call has returned the restore failure and the slot is empty
C15_Witness ==
  /\ syncPc[1] = "done"
  /\ syncRet[1] = [returned |-> TRUE, state |-> 0, commit |-> 0, err |-> RestoreError]
  /\ syncer = NoSyncer

\* C17: a select of the Start loop that is entered with an envelope pending
\* on the snapshot channel and another pending on the chunk channel receives
\* the one on the snapshot channel
C17_SnapshotChannelPreferred ==
  [][(/\ startPc = "select"
      /\ startLocal = NoLocal
      /\ startLocal'.kind = "select"
      /\ snapIn # <<>>
      /\ chunkIn # <<>>)
     => (startLocal'.ch = SnapshotChannel /\ startLocal'.msg = Head(snapIn).Message)]_vars

\* C18: after every AddSnapshot call the session accepts, it holds exactly
\* one record with the (Height, Format, Hash) of the snapshot, whose peers
\* are those recorded for it before and the caller's peer, the records of
\* other snapshots are as they were, and no two records share an identity
C18_OneRecordPerSnapshot ==
  [][(StartHandles("SnapshotsResponse") /\ startLocal'.outcome = "added")
     => LET call == startLocal'.calls[1]
            same(e) == snapshotKey(e.snap) = snapshotKey(call.arg)
            before == {e \in syncer.snapshots : same(e)}
            after == {e \in syncer'.snapshots : same(e)}
        IN /\ Cardinality(after) = 1
           /\ \A e \in after :
                /\ e.snap = call.arg
                /\ e.peers = UNION {x.peers : x \in before} \cup {call.peer}
           /\ {e \in syncer'.snapshots : ~same(e)} = {e \in syncer.snapshots : ~same(e)}
           /\ \A e1, e2 \in syncer'.snapshots :
                snapshotKey(e1.snap) = snapshotKey(e2.snap) => e1 = e2]_vars

\* a second peer has just advertised a snapshot the session had on record
C18_Witness ==
  /\ startPc = "loop"
  /\ startLocal.kind = "SnapshotsResponse"
  /\ startLocal.outcome = "added"
  /\ \E e \in syncer.snapshots :
       /\ e.snap = startLocal.calls[1].arg
       /\ Cardinality(e.peers) >= 2

\* C19: the step that selects takes a discovered snapshot, and no discovered
\* snapshot has a (Height, Format) tuple larger than that of the one taken,
\* Height compared first
C19_LargestTupleSelected ==
  [][(syncer.phase = "discovering" /\ syncer'.phase = "fetching")
     => /\ \E e \in syncer.snapshots : e.snap = syncer'.selected
        /\ \A o \in syncer.snapshots : ~TupleGreater(o.snap, syncer'.selected)]_vars

\* a snapshot was selected over a discovered one of lower height and higher
\* format
C19_Witness ==
  /\ syncer.phase = "fetching"
  /\ \E o \in syncer.snapshots :
       /\ o.snap.Height < syncer.selected.Height
       /\ o.snap.Format > syncer.selected.Format

\* the chunk is not one of the selected snapshot: its index is outside
\* [0, Chunks) or its Height or Format differs
NotOfSelected(sess, chunk) ==
  \/ chunk.Index < 0
  \/ chunk.Index >= sess.selected.Chunks
  \/ chunk.Height # sess.selected.Height
  \/ chunk.Format # sess.selected.Format

\* C20: an AddChunk call whose chunk is not one of the selected snapshot
\* returns an error and leaves the retrieved indices, and the rest of the
\* session, as they were
C20_ForeignChunkRejected ==
  [][(/\ StartHandles("ChunkResponse")
      /\ startLocal'.calls # <<>>
      /\ NotOfSelected(syncer, startLocal'.calls[1].arg))
     => /\ startLocal'.outcome = "addError"
        /\ syncer'.retrieved = syncer.retrieved
        /\ syncer' = syncer]_vars

\* while fetching, a chunk with an index the selected snapshot does not have
\* was turned down
C20_Witness ==
  /\ startPc = "loop"
  /\ startLocal.kind = "ChunkResponse"
  /\ startLocal.outcome = "addError"
  /\ syncer.phase = "fetching"
  /\ startLocal.calls[1].arg.Height = syncer.selected.Height
  /\ startLocal.calls[1].arg.Format = syncer.selected.Format
  /\ startLocal.calls[1].arg.Index >= syncer.selected.Chunks

\* C21: an AddChunk call for an index that is already retrieved leaves the
\* retrieved indices and the stored payloads as they were, whatever payload
\* it carries, and after any AddChunk call the same call again changes nothing
C21_DuplicateChunkIsNoOp ==
  [][\A p \in Peers :
       (/\ ReceiveHandles(p, "ChunkResponse")
        /\ recvLocal'[p].calls # <<>>)
       => LET chunk == recvLocal'[p].calls[1].arg IN
            /\ chunk.Index \in syncer.retrieved
                 => /\ syncer'.retrieved = syncer.retrieved
                    /\ syncer'.chunks = syncer.chunks
            /\ AddChunk(syncer', chunk) = syncer']_vars

\* chunk 0 was stored with one payload and Receive then handed AddChunk
\* chunk 0 with another payload, which was accepted and not stored
C21_Witness ==
  \E p \in Peers :
    /\ recvPc[p] = "ret"
    /\ recvLocal[p].calls # <<>>
    /\ recvLocal[p].calls[1].op = "AddChunk"
    /\ recvLocal[p].outcome = "added"
    /\ recvLocal[p].calls[1].arg.Index = 0
    /\ recvLocal[p].calls[1].arg.Chunk = "empty"
    /\ syncer.chunks = {<<0, "data">>}

\* C22: with the snapshot of three chunks advertised by the peers, the
\* session selects once; the application is asked to restore at most once,
\* and only when chunks 0, 1 and 2 are all retrieved; and once they are all
\* retrieved the sync completes with the restoration invoked exactly once
C22_RestoredOnceWhenComplete ==
  /\ [](syncer.restores <= 1)
  /\ [][/\ (syncer'.restores # syncer.restores /\ syncer'.owner # NoCaller)
           => /\ syncer.selected # NoSnapshot
              /\ syncer.retrieved = 0..(syncer.selected.Chunks - 1)
        /\ (syncer'.selected # syncer.selected /\ syncer'.owner # NoCaller)
           => /\ syncer.selected = NoSnapshot
              /\ syncer.owner = syncer'.owner
              /\ Cardinality(syncer.snapshots) = 1]_vars
  /\ (/\ syncer.phase = "fetching"
      /\ syncer.selected = sD
      /\ syncer.retrieved = 0..2)
       ~> (syncer.phase = "done" /\ syncer.restores = 1)

\* both peers advertised the snapshot, its three chunks arrived, chunk 0 more
\* than once, and the restoration has been invoked
C22_Witness ==
  /\ syncer.phase = "done"
  /\ syncer.restores = 1
  /\ syncer.selected = sD
  /\ syncer.retrieved = 0..2
  /\ \E e \in syncer.snapshots : e.peers = Peers
  /\ \E p \in Peers :
       /\ recvLocal[p].calls # <<>>
       /\ recvLocal[p].calls[1].op = "AddChunk"
       /\ recvLocal[p].calls[1].arg.Chunk = "empty"
       /\ recvLocal[p].outcome = "added"
       /\ <<0, "data">> \in syncer.chunks

\* the discovery window expires in this step with no snapshot collected
C23_EmptyExpiry(c) ==
  /\ syncPc[c] = "syncany"
  /\ syncer.phase = "discovering"
  /\ syncer.snapshots = {}
  /\ syncer'.phase # syncer.phase

\* C23 (as claimed): a discovery window that expires with no snapshot
\* collected ends SyncAny with the "no suitable snapshot" failure without
\* entering fetching, and the Sync call then empties the slot and returns
\* that failure, unless the process has died
C23_NoSnapshotEndsSync ==
  /\ [][\A c \in SyncCallers :
          C23_EmptyExpiry(c)
            => /\ syncer'.phase = "done"
               /\ syncPc'[c] = "lock2"
               /\ syncRet'[c].err = NoSnapshotError]_vars
  /\ \A c \in SyncCallers :
       (syncPc[c] = "lock2" /\ syncRet[c].err = NoSnapshotError /\ ~panicked)
         ~> \/ /\ syncPc[c] = "done"
               /\ syncRet[c].err = NoSnapshotError
               /\ syncer.owner = NoCaller
            \/ panicked

\* C24: while fetching, no chunk index of the selected snapshot has more
\* than one outstanding request, and a request issued for an index whose last
\* request timed out or lost its peer goes to an advertising peer other than
\* the one it was last sent to
C24_OneRequestPerChunkRetriedElsewhere ==
  /\ [](syncer.phase = "fetching"
         => \A r1, r2 \in syncer.requested :
              /\ r1[1] \in 0..(syncer.selected.Chunks - 1)
              /\ r1[1] = r2[1] => r1 = r2)
  /\ [][\A r \in syncer'.requested \ syncer.requested :
          (\E f \in syncer.failed : f[1] = r[1])
            => /\ r \notin syncer.failed
               /\ r[2] \in AdvertisersOf(syncer)]_vars

\* chunk 0 was asked of one peer, the request failed, and it is now
\* outstanding at the other peer while chunk 1 is outstanding too
C24_Witness ==
  /\ syncer.phase = "fetching"
  /\ RetriesOf(syncer, 0) = 1
  /\ \E p \in Peers : <<0, p>> \in syncer.requested
  /\ \E p \in Peers : <<1, p>> \in syncer.requested

\* C25: no chunk index is retried more than chunkRetries times, and once a
\* request fails with the retries of its chunk used up the sync fails with
\* the retry error (unless that chunk arrives after all)
C25_RetriesBounded ==
  /\ [](\A n \in syncer.tries : n[2] <= chunkRetries)
  /\ \A i \in 0..(sA.Chunks - 1) :
       (/\ syncer.phase = "fetching"
        /\ \E f \in syncer.failed : f[1] = i
        /\ RetriesOf(syncer, i) >= chunkRetries)
         ~> \/ \E c \in OneCaller :
                 /\ syncPc[c] = "lock2"
                 /\ syncRet[c].err = RetryError
                 /\ syncer.phase = "done"
            \/ i \in syncer.retrieved

\* the sync has failed because a chunk ran out of retries
C25_Witness ==
  /\ syncer.phase = "done"
  /\ \E f \in syncer.failed : RetriesOf(syncer, f[1]) = chunkRetries
  /\ \E c \in OneCaller : syncRet[c].err = RetryError

\* C26: when the channel takes an envelope with neither To nor Broadcast
\* off its Out queue no peer is handed anything, the envelope is counted as
\* discarded and no failure is raised; the envelopes queued behind it stay
\* queued, and an addressed or broadcast envelope is handed to its connected
\* recipients whatever was discarded before
C26_UnaddressedEnvelopeDiscarded ==
  [][(delivered' # delivered \/ discarded' # discarded
        \/ Len(snapOut') < Len(snapOut))
     => LET e == Head(snapOut) IN
          /\ snapOut # <<>>
          /\ snapOut' = Tail(snapOut)
          /\ panicked' = panicked
          /\ (e.To = NoPeer /\ ~e.Broadcast)
               => /\ delivered' = delivered
                  /\ discarded' = discarded + 1
          /\ (e.To # NoPeer \/ e.Broadcast)
               => /\ discarded' = discarded
                  /\ \A p \in Peers :
                       delivered'[p] =
                         IF peerStatus[p] = "up" /\ (e.Broadcast \/ e.To = p)
                         THEN Append(delivered[p], e.Message)
                         ELSE delivered[p]]_vars

\* an envelope without addressing was discarded while a peer was connected,
\* and an addressed envelope sent after it reached that peer
C26_Witness ==
  /\ discarded = 1
  /\ \E p \in Peers : peerStatus[p] = "up" /\ Len(delivered[p]) = 1
  /\ \A p \in Peers : peerStatus[p] \in {"new", "up"}

\* C27: a peer's status changes only from new to up, from up to down, and
\* from down to up, removed or banned; a banned peer keeps that status and no
\* dial of it is possible
C27_PeerStatusTransitions ==
  [][\A p \in Peers :
       /\ peerStatus'[p] # peerStatus[p]
            => <<peerStatus[p], peerStatus'[p]>> \in
                 {<<"new", "up">>, <<"up", "down">>, <<"down", "up">>,
                  <<"down", "removed">>, <<"down", "banned">>}
       /\ peerStatus[p] = "banned"
            => /\ peerStatus'[p] = "banned"
               /\ ~ENABLED PeerDial(p)
               /\ delivered'[p] = delivered[p]]_vars

\* a peer was connected, lost and banned while another is connected again
C27_Witness ==
  /\ \E p \in Peers : peerStatus[p] = "banned"
  /\ \E p \in Peers : peerStatus[p] = "up" /\ delivered[p] # <<>>

\* C28 (as claimed): Start and the Sync calls never deadlock on the reactor
\* mutex: in no reachable state is Start blocked in RLock behind a Sync call
\* that is blocked in Lock by read locks which only Start's own return
\* would release
C28_NoMutexDeadlock ==
  ~(/\ startPc = "rwait"
    /\ startDefers > 0
    /\ mtx.readers = startDefers
    /\ \E c \in SyncCallers :
         /\ syncPc[c] \in {"wait1", "wait2"}
         /\ mtx.pending = c)

\* C29: the session slot goes from empty to a session only in the step of a
\* Sync call that passes the "already in progress" check, where it receives a
\* new session, and from a session to empty only in the step of that call
\* after SyncAny; no step of the Start loop, of a Receive call or of AddPeer
\* and RemovePeer changes which session is in the slot
C29_SlotChangesOnlyInSync ==
  [][/\ (syncer'.owner # syncer.owner)
          => \E c \in SyncCallers :
               \/ /\ syncer.owner = NoCaller
                  /\ syncPc[c] \in {"lock1", "wait1"}
                  /\ syncPc'[c] = "broadcast"
                  /\ syncer' = newSyncer(c)
               \/ /\ syncer.owner = c
                  /\ syncPc[c] \in {"lock2", "wait2"}
                  /\ syncPc'[c] = "done"
                  /\ syncer' = NoSyncer
     /\ (startPc' # startPc \/ startLocal' # startLocal
           \/ recvPc' # recvPc \/ recvLocal' # recvLocal)
          => syncer'.owner = syncer.owner]_vars

\* a session was created and the slot emptied again after requests, responses
\* and a peer update were handled
C29_Witness ==
  /\ syncer.owner = NoCaller
  /\ \E c \in OneCaller : syncPc[c] = "done" /\ syncRet[c] # BusyReturn
  /\ \/ startLocal.kind \in {"SnapshotsRequest", "ChunkRequest"}
     \/ \E p \in OnePeer : recvLocal[p].kind \in {"AddPeer", "RemovePeer"}

\* what a handler handed back to a peer: recipient and message, in order
C30_StartResponses ==
  [i \in 1..Len(startLocal.sent) |->
     [to |-> startLocal.sent[i].To, msg |-> startLocal.sent[i].Message]]

C30_ReceiveResponses(p) ==
  [i \in 1..Len(recvLocal[p].sent) |->
     [to |-> recvLocal[p].sent[i].to, msg |-> recvLocal[p].sent[i].msg]]

\* the Start loop and p's Receive call have both finished handling the same
\* message from p, with the same answer from the application or the session
C30_SameInput(p) ==
  /\ startPc = "loop"
  /\ recvPc[p] = "ret"
  /\ startLocal.from = p
  /\ recvLocal[p].from = p
  /\ startLocal.kind = recvLocal[p].kind
  /\ startLocal.msg = recvLocal[p].msg
  /\ startLocal.listed = recvLocal[p].listed
  /\ startLocal.outcome = recvLocal[p].outcome

\* C30: whenever the Start loop and a Receive call have handled the same
\* message from the same peer with the same answer from the application or
\* the session, they have sent the same responses to the same recipients in
\* the same order and made the same AddSnapshot or AddChunk call
C30_PathsAgree ==
  \A p \in Peers :
    C30_SameInput(p)
      => /\ C30_StartResponses = C30_ReceiveResponses(p)
         /\ startLocal.calls = recvLocal[p].calls

\* both paths answered a SnapshotsRequest with two advertisements, and
\* both paths handed a chunk to the session
C30_Witness ==
  \E p \in Peers :
    /\ C30_SameInput(p)
    /\ \/ startLocal.kind = "SnapshotsRequest" /\ Len(startLocal.sent) = 2
       \/ /\ startLocal.kind = "ChunkResponse"
          /\ startLocal.outcome = "added"
          /\ startLocal.calls # <<>>

\* C31 (as claimed): a call recentSnapshots(n) that the application answers
\* with a list L returns min(n, |L|) snapshots, the largest by
\* (Height, Format) in descending order
C31_RecentReturnsN ==
  (lastCall.fn = "recentSnapshots" /\ ~lastCall.err)
    => /\ Len(lastCall.result) = Min(lastCall.arg[1], Len(lastCall.listed))
       /\ \A i, j \in DOMAIN lastCall.result :
            i < j => ~snapshotLess(lastCall.result[j], lastCall.result[i])

\* what the application's failure leaves in the handler's frame
AppErrors == {"listError", "loadError"}

\* C32: when ListSnapshots or the chunk load fails, the Start loop sends
\* nothing for that request, leaves the session and the outbound queues as
\* they were and goes on to the next select; a ChunkResponse with Missing set
\* is only sent for a load that succeeded with a nil chunk
C32_AppErrorSilent ==
  [][/\ (startLocal'.outcome \in AppErrors /\ startLocal.outcome \notin AppErrors)
          => /\ startPc' = "loop"
             /\ startLocal'.sent = <<>> /\ startLocal'.list = <<>>
             /\ UNCHANGED <<syncer, snapOut, chunkOut>>
     /\ (startLocal.outcome \in AppErrors /\ startLocal' # startLocal)
          => /\ startPc = "loop" /\ startPc' = "select"
             /\ startLocal' = NoLocal
             /\ UNCHANGED <<syncer, snapOut, chunkOut>>
     /\ \A i \in DOMAIN startLocal'.sent :
          LET m == startLocal'.sent[i].Message IN
          (m.type = "ChunkResponse" /\ m.Missing) => startLocal'.listed = <<"nil">>
    ]_vars

\* the chunk load has failed while a session is active
C32_Witness ==
  /\ startPc = "loop"
  /\ startLocal.outcome = "loadError"
  /\ syncer.owner # NoCaller

\* the envelope e answers the request in the Start loop's frame on its channel
StartAnswers(e, request, response) ==
  /\ startLocal.kind = request
  /\ e.To = startLocal.from /\ e.To \in Peers
  /\ ~e.Broadcast
  /\ e.Message.type = response

\* C33: every envelope the Start loop puts on an Out queue is addressed to
\* the peer whose request is being answered and is not a broadcast; a
\* SnapshotsResponse only goes to the snapshot channel, in answer to a
\* SnapshotsRequest, and a ChunkResponse only to the chunk channel, in answer
\* to a ChunkRequest
C33_StartAddressing ==
  [][/\ Len(snapOut') > Len(snapOut)
          => StartAnswers(snapOut'[Len(snapOut')], "SnapshotsRequest", "SnapshotsResponse")
     /\ Len(chunkOut') > Len(chunkOut)
          => StartAnswers(chunkOut'[Len(chunkOut')], "ChunkRequest", "ChunkResponse")
     /\ \A i \in DOMAIN snapOut' :
          /\ snapOut'[i].To \in Peers /\ ~snapOut'[i].Broadcast
          /\ snapOut'[i].Message.type = "SnapshotsResponse"
     /\ \A i \in DOMAIN chunkOut' :
          /\ chunkOut'[i].To \in Peers /\ ~chunkOut'[i].Broadcast
          /\ chunkOut'[i].Message.type = "ChunkResponse"
    ]_vars

\* a response is queued on each channel
C33_Witness ==
  /\ snapOut # <<>>
  /\ chunkOut # <<>>

\* Receive(chID, p, msgBytes) is called and runs in this step
ReceiveEntered(p) == recvPc[p] = "idle" /\ recvPc'[p] # "idle"

\* the frame of a call that responded to nobody, asked the application
\* nothing and made no call on the session
QuietFrame(local) ==
  /\ local.sent = <<>>
  /\ local.list = <<>> /\ local.listed = <<>>
  /\ local.calls = <<>>

\* what msgBytes that do not pass decodeMsg and validateMsg leave in the frame
BadBytes == {"undecodable", "invalid"}

\* C34: a Receive whose bytes fail decoding or validation calls
\* StopPeerForError once, for the sending peer, and does nothing else: no
\* response, no application query, no AddSnapshot or AddChunk, the session
\* and the lock untouched
C34_BadBytesStopPeer ==
  [][\A p \in Peers :
       (ReceiveEntered(p) /\ recvLocal'[p].outcome \in BadBytes)
         => /\ recvLocal'[p].stopped = <<p>>
            /\ QuietFrame(recvLocal'[p])
            /\ ~recvLocal'[p].locked
            /\ recvPc'[p] = "ret"
            /\ UNCHANGED <<syncer, mtx, snapOut, chunkOut, bcast>>
    ]_vars

\* undecodable bytes have arrived while a session is active
C34_Witness ==
  \E p \in Peers :
    /\ recvLocal[p].outcome = "undecodable"
    /\ recvLocal[p].stopped = <<p>>
    /\ syncer.owner # NoCaller

\* C35: while the reactor is not running, Receive on any channel id with any
\* bytes decodes nothing, stops no peer, sends nothing and leaves the session
\* and everything else as it was, in the call and in its return
C35_NotRunningNoEffect ==
  [][\A p \in Peers :
       /\ (ReceiveEntered(p) /\ ~running
              /\ recvLocal'[p].kind \notin {"AddPeer", "RemovePeer"})
            => /\ recvLocal'[p].outcome = "notRunning"
               /\ recvLocal'[p].msg = UnknownMessage
               /\ recvLocal'[p].stopped = <<>>
               /\ QuietFrame(recvLocal'[p])
               /\ ~recvLocal'[p].locked
               /\ UNCHANGED <<wiringVars, netVars, inVars, running, ctxDone, panicked,
                               syncer, mtx, startVars, syncVars, outVars,
                               appSnapshots, lastCall>>
       /\ (recvLocal[p].outcome = "notRunning" /\ recvLocal'[p] # recvLocal[p])
            => /\ recvLocal'[p] = NoLocal /\ recvPc'[p] = "idle"
               /\ UNCHANGED <<wiringVars, netVars, inVars, running, ctxDone, panicked,
                               syncer, mtx, startVars, syncVars, outVars,
                               appSnapshots, lastCall>>
    ]_vars

\* a message has arrived on a state-sync channel of a reactor that is added
\* to a Switch and not running
C35_Witness ==
  \E p \in Peers :
    /\ recvLocal[p].outcome = "notRunning"
    /\ recvLocal[p].ch = SnapshotChannel
    /\ switch /\ ~running

\* the four message types of the two state-sync channels
ValidTypes == {"SnapshotsRequest", "SnapshotsResponse", "ChunkRequest", "ChunkResponse"}

\* C36: a valid message handled on a channel it does not belong to, by the
\* Start loop or by Receive, or by Receive on a channel id that is neither
\* state-sync channel, is answered with nothing: no response, no application
\* query, no AddSnapshot or AddChunk, no peer stopped, no lock taken
C36_WrongChannelSilent ==
  [][/\ \A p \in Peers :
          (ReceiveEntered(p) /\ running
             /\ recvLocal'[p].msg.type \in ValidTypes
             /\ recvLocal'[p].ch # ChannelOf(recvLocal'[p].msg))
            => /\ QuietFrame(recvLocal'[p])
               /\ recvLocal'[p].stopped = <<>>
               /\ ~recvLocal'[p].locked
               /\ UNCHANGED <<syncer, mtx, snapOut, chunkOut, bcast>>
     /\ (startPc = "select"
          /\ startLocal'.msg.type \in ValidTypes
          /\ startLocal'.ch \in {SnapshotChannel, ChunkChannel}
          /\ startLocal'.ch # ChannelOf(startLocal'.msg))
         => /\ QuietFrame(startLocal')
            /\ startPc' = "loop"
            /\ UNCHANGED <<syncer, mtx, startDefers, snapOut, chunkOut, bcast>>
    ]_vars

\* with a session active, the Start loop has taken a response from the wrong
\* channel and Receive was given a response on an invalid channel id
C36_Witness ==
  /\ syncer.owner # NoCaller
  /\ startLocal.msg.type = "SnapshotsResponse" /\ startLocal.ch = ChunkChannel
  /\ \E p \in Peers :
       recvLocal[p].msg.type = "ChunkResponse" /\ recvLocal[p].ch = InvalidChannel

PeerCallbacks == {"AddPeer", "RemovePeer"}

\* C37: AddPeer and RemovePeer take the read lock, call the session's
\* AddPeer or RemovePeer once for the peer when a session is active and leave
\* the session alone when none is, and give the read lock back when they
\* return: the lock has as many readers as there are callbacks that have not
\* returned yet
C37_PeerCallbacks ==
  [][/\ \A p \in Peers :
          /\ (ReceiveEntered(p) /\ recvLocal'[p].kind \in PeerCallbacks)
               => /\ recvLocal'[p].locked
                  /\ mtx'.readers = mtx.readers + 1
                  /\ recvLocal'[p].sent = <<>> /\ recvLocal'[p].stopped = <<>>
                  /\ IF syncer.owner # NoCaller
                     THEN /\ Len(recvLocal'[p].calls) = 1
                          /\ recvLocal'[p].calls[1].op = recvLocal'[p].kind
                          /\ recvLocal'[p].calls[1].peer = p
                          /\ syncer'.owner = syncer.owner
                     ELSE /\ recvLocal'[p].calls = <<>>
                          /\ syncer' = syncer
          /\ (recvLocal[p].kind \in PeerCallbacks /\ recvLocal'[p] # recvLocal[p])
               => /\ recvPc'[p] = "idle"
                  /\ mtx'.readers = mtx.readers - 1
                  /\ syncer' = syncer
     /\ mtx'.readers = startDefers' + Cardinality({p \in Peers : recvLocal'[p].locked})
    ]_vars

\* RemovePeer and AddPeer were both forwarded to the active session and
\* neither has returned
C37_Witness ==
  \E p, q \in Peers :
    /\ recvLocal[p].kind = "RemovePeer" /\ recvLocal[p].outcome = "forwarded"
    /\ recvLocal[q].kind = "AddPeer" /\ recvLocal[q].outcome = "forwarded"
    /\ mtx.readers = 2

\* C38 (as claimed): a reactor built by NewReactor never dies of a nil
\* collaborator, in Start or in Sync, and the session that Sync creates on a
\* reactor built by NewReactorDeprecated is given the tempDir the constructor
\* was called with
C38_ConstructorsInitialise ==
  /\ ctor = "NewReactor" => ~panicked
  /\ (ctor = "NewReactorDeprecated" /\ syncer.owner # NoCaller) => tempDir

\* the inner message types EchoMessage has a case for
Recognised == {"PingMessage", "PongMessage"}

\* C39: Wrap succeeds exactly for a PingMessage or PongMessage, and Unwrap of
\* the EchoMessage it filled succeeds and returns that very message; Wrap of
\* any other message fails, and Unwrap of an EchoMessage whose Inner is empty
\* or of an unknown case fails
C39_WrapUnwrapRoundTrip ==
  /\ lastCall.fn = "Wrap"
       => (lastCall.err <=> lastCall.arg[2].type \notin Recognised)
  /\ (lastCall.fn = "Unwrap" /\ lastCall.listed # <<>>)
       => (~lastCall.err /\ lastCall.result = lastCall.listed)
  /\ (lastCall.fn = "Unwrap"
        /\ lastCall.arg[1].Inner.case
             \notin {"EchoMessage_PingMessage", "EchoMessage_PongMessage"})
       => (lastCall.err /\ lastCall.result = <<NilMessage>>)

\* a PongMessage with content was wrapped into an EchoMessage that held
\* something else, and unwrapped again
C39_Witness ==
  /\ lastCall.fn = "Unwrap"
  /\ lastCall.listed # <<>>
  /\ lastCall.listed[1].type = "PongMessage"
  /\ lastCall.listed[1].content # <<>>

====
